---- MODULE Spec2Model ----
(***************************************************************************)
(* A model of the lazy-scheduler core: the business calendar and its       *)
(* forward / reverse time-window enumeration, the task data model, and     *)
(* the scheduler (earliest / latest start propagation, dependents map,     *)
(* calendar-aware projection and the greedy allocation loop).              *)
(*                                                                         *)
(* Time.  chrono's Duration, NaiveTime and NaiveDateTime are integers      *)
(* counted in units of 100 ms: Minute units make one minute, a day has     *)
(* DayLen minutes (a scaled-down day), a NaiveTime is in 0..DayUnits-1     *)
(* and wraps around at DayUnits as NaiveTime arithmetic does, and a        *)
(* NaiveDateTime is date * DayUnits + time.  Dates are integers.           *)
(***************************************************************************)
EXTENDS Integers, Sequences, FiniteSets, TLC

VARIABLES
    calendar,      \* Session.calendar : Calendar
    tasks,         \* Session.tasks    : BTreeMap<TaskID, Task>
    scheduler,     \* Session.scheduler: Scheduler
    slots,         \* Session.slots    : SlotMap
    pc,            \* position of the running operation
    sched,         \* locals of Scheduler::schedule (context, window, cursor, capacity)
    fwd,           \* last Calendar::time_windows call: argument and windows
    rev,           \* last Calendar::time_windows_rev call: argument and windows
    call,          \* last call of a Calendar, Task or Estimate operation: name, arguments, result
    log,           \* Session.log      : WorkLog, its items in the order they were added
    active_task    \* Session.active_task : Option<(TaskID, NaiveDateTime)>

vars == <<calendar, tasks, scheduler, slots, pc, sched, fwd, rev, call, log,
          active_task>>

----------------------------------------------------------------------------
(* Bounds of the model *)

\* the greatest date of the model's calendar (dates are 0..MaxDate)
MaxDate == 1
\* minutes in the model's day
DayLen == 6
\* scheduled items a day may hold
MaxItems == 2
\* tasks in the task map (TaskIDs are 1..NumTasks, ordered as the BTreeMap orders them)
NumTasks == 2
\* call frames the stack holds before a recursion overflows it
MaxStack == 4
\* external blocking reasons a task may hold
MaxExternals == 2
\* minutes of work a task may have recorded
MaxActual == 1
\* the greatest component of an estimate, in minutes
MaxEstimate == 4
\* days in the model's month (date 0 is the first day of a month)
MonthLen == 30

\* one minute, in units of 100 ms
Minute == 6 * 100
DayUnits == DayLen * Minute

Dates == 0..MaxDate
\* the times of day the model's inputs use: whole minutes
Times == {m * Minute : m \in 0..(DayLen - 1)}
DateTimes == {d * DayUnits + t : d \in Dates, t \in Times}

\* Option::None for an Option<NaiveTime>, Option<NaiveDateTime> or Option<Progress>
None == -1

DateOf(dt) == dt \div DayUnits
TimeOf(dt) == dt % DayUnits
AndTime(date, time) == date * DayUnits + time
\* NaiveTime + Duration: wraps around the day
TimeAdd(time, dur) == (time + dur) % DayUnits
\* Duration::num_minutes: whole minutes, truncated toward zero
NumMinutes(dur) == IF dur >= 0 THEN dur \div Minute ELSE -((-dur) \div Minute)

Min(a, b) == IF a <= b THEN a ELSE b
Max(a, b) == IF a >= b THEN a ELSE b

----------------------------------------------------------------------------
(* Calendar *)

\* ScheduleItem's derived Ord: (start, duration, note)
ItemLess(a, b) ==
    \/ a.start < b.start
    \/ a.start = b.start /\ a.duration < b.duration
    \/ a.start = b.start /\ a.duration = b.duration /\ a.note < b.note

\* BTreeSet<ScheduleItem>::iter(): the items in ascending order
RECURSIVE ItemsAscending(_)
ItemsAscending(items) ==
    IF items = {} THEN <<>>
    ELSE LET first == CHOOSE a \in items : \A b \in items \ {a} : ItemLess(a, b)
         IN  <<first>> \o ItemsAscending(items \ {first})

Reverse(s) == [i \in 1..Len(s) |-> s[Len(s) + 1 - i]]

\* BTreeSet<NaiveDate>::iter(): the dates in ascending order
RECURSIVE DatesAscending(_)
DatesAscending(ds) ==
    IF ds = {} THEN <<>>
    ELSE LET first == CHOOSE a \in ds : \A b \in ds : a <= b
         IN  <<first>> \o DatesAscending(ds \ {first})

CalendarNew(working_time) ==
    [official_days |-> {}, working_time |-> working_time, calendar_days |-> <<>>]

EmptyDay == [work_start_time |-> None, work_end_time |-> None, scheduled_items |-> {}]

\* Calendar::working_time(date) with .unwrap_or(self.working_time) applied by the callers
WorkingTimeOrDefault(cal, date) ==
    IF date \in DOMAIN cal.calendar_days
    THEN LET day == cal.calendar_days[date]
         IN  << IF day.work_start_time = None THEN cal.working_time[1] ELSE day.work_start_time,
                IF day.work_end_time = None THEN cal.working_time[2] ELSE day.work_end_time >>
    ELSE cal.working_time

ScheduledItems(cal, date) ==
    IF date \in DOMAIN cal.calendar_days THEN cal.calendar_days[date].scheduled_items ELSE {}

\* official_workdays that skips the start date itself
OfficialWorkdaysAfter(cal, start_at) ==
    DatesAscending({d \in cal.official_days : d > start_at})

\* Calendar::official_workdays(start_at)
OfficialWorkdays(cal, start_at) ==
    DatesAscending({d \in cal.official_days : d >= start_at})

IsOfficialWorkday(cal, date) == date \in cal.official_days

Window(kind, date, start, end) == [kind |-> kind, date |-> date, start |-> start, end |-> end]
StartDatetime(w) == AndTime(w.date, w.start)
EndDatetime(w) == AndTime(w.date, w.end)
Available(w) == w.kind = "Available"

\* the body of the `for item in busy` loop of time_windows, from item i on
RECURSIVE ForwardItems(_, _, _, _, _, _)
ForwardItems(busy, i, window_start, work_end, date, windows) ==
    IF i > Len(busy)
    THEN [window_start |-> window_start, windows |-> windows]
    ELSE LET item == busy[i]
             item_end == TimeAdd(item.start, item.duration)
             pushed == IF window_start < item.start
                       THEN windows \o << Window("Available", date, window_start, item.start),
                                          Window("Busy", date, item.start, item_end) >>
                       ELSE windows
         IN  ForwardItems(busy, i + 1, Min(item_end, work_end), work_end, date, pushed)

\* the closure of time_windows: the windows of one official workday
ForwardDay(cal, date, from) ==
    LET wt == WorkingTimeOrDefault(cal, date)
        work_start == wt[1]
        work_end == wt[2]
        busy == ItemsAscending(ScheduledItems(cal, date))
        window_start == IF date = DateOf(from) /\ TimeOf(from) > work_start
                        THEN TimeOf(from) ELSE work_start
        after == ForwardItems(busy, 1, window_start, work_end, date, <<>>)
    IN  IF after.window_start < work_end
        THEN after.windows \o << Window("Available", date, after.window_start, work_end) >>
        ELSE after.windows

RECURSIVE ForwardDays(_, _, _)
ForwardDays(cal, dates, from) ==
    IF dates = <<>> THEN <<>>
    ELSE ForwardDay(cal, Head(dates), from) \o ForwardDays(cal, Tail(dates), from)

\* Calendar::time_windows(from)
TimeWindows(cal, from) ==
    ForwardDays(cal, OfficialWorkdays(cal, DateOf(from)), from)

\* the body of the `for item in ...iter().rev()` loop of time_windows_rev, from item i on
RECURSIVE ReverseItems(_, _, _, _, _, _)
ReverseItems(busy_rev, i, window_end, work_start, date, windows) ==
    IF i > Len(busy_rev)
    THEN [window_end |-> window_end, windows |-> windows]
    ELSE LET item == busy_rev[i]
             item_end == Min(TimeAdd(item.start, item.duration), window_end)
             pushed == IF item_end < window_end
                       THEN windows \o << Window("Busy", date, item.start,
                                                 TimeAdd(item.start, item.duration)),
                                          Window("Available", date, item_end, window_end) >>
                       ELSE windows
         IN  ReverseItems(busy_rev, i + 1, Max(item.start, work_start), work_start, date, pushed)

\* the closure of time_windows_rev: the windows of one official workday
ReverseDay(cal, date, until) ==
    LET wt == WorkingTimeOrDefault(cal, date)
        work_start == wt[1]
        work_end == wt[2]
        window_end == IF date = DateOf(until) THEN Min(work_end, TimeOf(until)) ELSE work_end
        busy_rev == Reverse(ItemsAscending(ScheduledItems(cal, date)))
        after == ReverseItems(busy_rev, 1, window_end, work_start, date, <<>>)
    IN  IF work_start < after.window_end
        THEN after.windows \o << Window("Available", date, work_start, after.window_end) >>
        ELSE after.windows

RECURSIVE ReverseDays(_, _, _)
ReverseDays(cal, dates, until) ==
    IF dates = <<>> THEN <<>>
    ELSE ReverseDay(cal, Head(dates), until) \o ReverseDays(cal, Tail(dates), until)

\* Calendar::time_windows_rev(until)
TimeWindowsRev(cal, until) ==
    ReverseDays(cal, Reverse(DatesAscending({d \in cal.official_days : d <= DateOf(until)})), until)

----------------------------------------------------------------------------
(* Calendar operations *)

\* Calendar::add_working_day(date, official)
CalAddWorkingDay(cal, date, official) ==
    [cal EXCEPT
        !.official_days = IF official THEN @ \cup {date} ELSE @,
        !.calendar_days = [d \in (DOMAIN @) \cup {date} |-> IF d = date THEN EmptyDay ELSE @[d]]]

\* Calendar::remove_working_day(date, official)
CalRemoveWorkingDay(cal, date, official) ==
    [cal EXCEPT
        !.official_days = IF official THEN @ \ {date} ELSE @,
        !.calendar_days = [d \in (DOMAIN @) \ {date} |-> @[d]]]

\* Calendar::add_scheduled_item(date, item)
CalAddScheduledItem(cal, date, item) ==
    IF date \notin DOMAIN cal.calendar_days THEN cal
    ELSE [cal EXCEPT !.calendar_days[date].scheduled_items = @ \cup {item}]

\* update_working_time without the start >= end check
CalUpdateWorkingTimeUnchecked(cal, date, start, end) ==
    IF date \notin DOMAIN cal.calendar_days THEN cal
    ELSE [cal EXCEPT !.calendar_days[date].work_start_time = start,
                     !.calendar_days[date].work_end_time = end]

\* Calendar::update_working_time(date, start, end)
CalUpdateWorkingTime(cal, date, start, end) ==
    IF date \notin DOMAIN cal.calendar_days THEN cal
    ELSE IF start # None /\ end # None /\ start >= end THEN cal
    ELSE [cal EXCEPT !.calendar_days[date].work_start_time = start,
                     !.calendar_days[date].work_end_time = end]

NotCalled == [called |-> FALSE, arg |-> 0, windows |-> <<>>]
\* no operation called yet
NoCall == [op |-> "none"]

----------------------------------------------------------------------------
(* Deadline *)

DeadlineNone == [kind |-> "None", at |-> None, reference_date |-> None, n |-> 0, time |-> None]
DeadlineUnknown == [kind |-> "Unknown", at |-> None, reference_date |-> None, n |-> 0, time |-> None]
DeadlineExact(at) == [kind |-> "Exact", at |-> at, reference_date |-> None, n |-> 0, time |-> None]
\* Deadline::Fuzzy(FuzzyDeadline::new(reference_date, kind(n), time))
DeadlineFuzzy(kind, reference_date, n, time) ==
    [kind |-> kind, at |-> None, reference_date |-> reference_date, n |-> n, time |-> time]

\* Calendar::previous_official_workday(date): None when there is none
PreviousOfficialWorkday(cal, date) ==
    LET before == {d \in cal.official_days : d < date}
    IN  IF before = {} THEN None ELSE CHOOSE d \in before : \A e \in before : e <= d

\* a week that starts on Sunday
StartOfWeekSunday(date) == date - ((date + 1) % 7)

\* date.week(Weekday::Mon).first_day(); date 0 of the model is a Monday
StartOfWeek(date) == date - (date % 7)

\* date.with_day(1)
StartOfMonth(date) == date - (date % MonthLen)
\* start_of_month.iter_days().take_while(|d| d.month() == month).last()
EndOfMonth(date) == StartOfMonth(date) + (MonthLen - 1)

\* FuzzyDeadline::resolve(default_deadline_time)
FuzzyResolve(dl, default_deadline_time) ==
    LET base_date == DateOf(dl.reference_date)
        deadline_date ==
            CASE dl.kind = "BusinessDays" -> base_date + dl.n
              [] dl.kind = "FridayOfWeeks" -> StartOfWeek(base_date) + 7 * dl.n + 4
              [] dl.kind = "Weeks" -> base_date + 7 * dl.n
              [] dl.kind = "MonthEnds" -> EndOfMonth(base_date)
              [] dl.kind = "Months" -> StartOfMonth(base_date) + 7 * (4 * dl.n)
        time == IF dl.time = None THEN default_deadline_time ELSE dl.time
    IN  AndTime(deadline_date, time)


\* FuzzyDeadline::resolve_with_calendar: [ok |-> FALSE] is Err, else Ok(at)
FuzzyResolveWithCalendar(dl, cal, default_deadline_time) ==
    LET base_date == DateOf(dl.reference_date)
        workdays == OfficialWorkdays(cal, base_date)
        failed == dl.kind = "BusinessDays" /\ Len(workdays) < dl.n + 1
        raw == CASE dl.kind = "BusinessDays" -> workdays[dl.n + 1]
                 [] dl.kind = "FridayOfWeeks" -> StartOfWeek(base_date) + 7 * dl.n + 4
                 [] dl.kind = "Weeks" -> base_date + 7 * dl.n
                 [] dl.kind = "MonthEnds" -> EndOfMonth(base_date)
                 [] dl.kind = "Months" -> StartOfMonth(base_date) + 7 * (4 * dl.n)
        prev == PreviousOfficialWorkday(cal, raw)
        deadline_date == IF ~IsOfficialWorkday(cal, raw) /\ prev # None THEN prev ELSE raw
        time == IF dl.time = None THEN default_deadline_time ELSE dl.time
    IN  IF failed THEN [ok |-> FALSE, some |-> FALSE, at |-> None]
        ELSE [ok |-> TRUE, some |-> TRUE, at |-> AndTime(deadline_date, time)]

\* Deadline::resolve_with_calendar: Err, Ok(None) or Ok(Some(at))
ResolveWithCalendar(dl, cal, default_deadline_time) ==
    CASE dl.kind \in {"None", "Unknown"} -> [ok |-> TRUE, some |-> FALSE, at |-> None]
      [] dl.kind = "Exact" -> [ok |-> TRUE, some |-> TRUE, at |-> dl.at]
      [] OTHER -> FuzzyResolveWithCalendar(dl, cal, default_deadline_time)

----------------------------------------------------------------------------
(* Estimate *)

\* i64 division of chrono's Duration: truncated toward zero
DivTrunc(a, b) == IF a >= 0 THEN a \div b ELSE -((-a) \div b)

EstimateNew(most_likely) ==
    [most_likely |-> most_likely, optimistic |-> most_likely, pessimistic |-> most_likely]
EstimateFromMop(most_likely, optimistic, pessimistic) ==
    [most_likely |-> most_likely, optimistic |-> optimistic, pessimistic |-> pessimistic]
\* Estimate::from_mop returns Ok
FromMopOk(most_likely, optimistic, pessimistic) ==
    /\ ~(optimistic > most_likely \/ most_likely > pessimistic)
    /\ ~(NumMinutes(optimistic) <= 0 \/ NumMinutes(most_likely) <= 0
             \/ NumMinutes(pessimistic) <= 0)
\* a mean cut to whole minutes
MeanInMinutes(e) ==
    DivTrunc(e.optimistic + e.most_likely * 4 + e.pessimistic, 6 * Minute) * Minute
Mean(e) == DivTrunc(e.optimistic + e.most_likely * 4 + e.pessimistic, 6)
Stddev(e) == DivTrunc(e.pessimistic - e.optimistic, 6)
EstimateAdd(a, b) ==
    [most_likely |-> a.most_likely + b.most_likely,
     optimistic |-> a.optimistic + b.optimistic,
     pessimistic |-> a.pessimistic + b.pessimistic]

----------------------------------------------------------------------------
(* Task *)

StatusReady == [kind |-> "Ready", tasks |-> <<>>, externals |-> <<>>, at |-> None]
StatusBlocked(task_ids, externals) ==
    [kind |-> "Blocked", tasks |-> task_ids, externals |-> externals, at |-> None]
StatusCompleted(at) == [kind |-> "Completed", tasks |-> <<>>, externals |-> <<>>, at |-> at]
StatusDropped == [kind |-> "Dropped", tasks |-> <<>>, externals |-> <<>>, at |-> None]

\* Option<Estimate>: the empty sequence is None, <<e>> is Some(e)
NoEstimate == <<>>
SomeEstimate(e) == <<e>>
HasEstimate(task) == task.estimate # NoEstimate
EstimateMean(task) == Mean(task.estimate[1])

\* Task::new(title, deadline, note)
TaskNew(deadline) ==
    [deadline |-> deadline, status |-> StatusReady, estimate |-> NoEstimate,
     progress |-> None, actual_total |-> 0]

IsReady(task) == task.status.kind = "Ready"
IsBlocked(task) == task.status.kind = "Blocked"
IsCompleted(task) == task.status.kind = "Completed"
IsDropped(task) == task.status.kind = "Dropped"

\* the blockers of a task
BlockersOf(tks, id) ==
    IF IsBlocked(tks[id]) THEN {tks[id].status.tasks[i] : i \in 1..Len(tks[id].status.tasks)}
    ELSE {}

\* the tasks that list id among their blockers
DirectDependents(tks, id) == {t \in DOMAIN tks : id \in BlockersOf(tks, t)}

\* the tasks reachable from the set `found` along dependent edges, `found` included
RECURSIVE Downstream(_, _)
Downstream(tks, found) ==
    IF \A f \in found : DirectDependents(tks, f) \subseteq found THEN found
    ELSE Downstream(tks, found \cup UNION {DirectDependents(tks, f) : f \in found})

TransitiveDependents(tks, id) ==
    IF DirectDependents(tks, id) = {} THEN {}
    ELSE Downstream(tks, DirectDependents(tks, id))

Acyclic(tks) == \A id \in DOMAIN tks : id \notin TransitiveDependents(tks, id)

\* Task::remaining panics: Duration / 0 in its second arm
RemainingPanics(task) ==
    /\ task.progress = 0
    /\ ~(HasEstimate(task) /\ task.actual_total = 0)

\* Task::remaining
Remaining(task) ==
    CASE HasEstimate(task) /\ task.progress # None /\ task.actual_total = 0 ->
            EstimateMean(task) - DivTrunc(EstimateMean(task), 100) * task.progress
      [] task.progress # None /\ task.progress # 0 ->
            DivTrunc(task.actual_total, task.progress) * (100 - task.progress)
      [] task.progress = None /\ HasEstimate(task) ->
            EstimateMean(task) - task.actual_total
      [] OTHER -> IF IsCompleted(task) \/ IsDropped(task) THEN 0 ELSE 5 * Minute

\* Task::complete(completed_at)
TaskComplete(task, completed_at) ==
    [task EXCEPT !.progress = 100, !.status = StatusCompleted(completed_at)]

\* Task::drop
TaskDrop(task) == [task EXCEPT !.status = StatusDropped]

\* Task::block_by_task: BlockingStatus::by_task keeps the ids as given,
\* BlockingStatus::block_by_task extends, sorts and dedups
SortedDedup(ids) == DatesAscending({ids[i] : i \in 1..Len(ids)})
TaskBlockByTask(task, task_ids) ==
    IF IsBlocked(task)
    THEN [task EXCEPT !.status.tasks = SortedDedup(@ \o task_ids)]
    ELSE [task EXCEPT !.status = StatusBlocked(task_ids, <<>>)]

\* Task::block_by_external
TaskBlockByExternal(task, may_unblock_at) ==
    IF IsBlocked(task)
    THEN [task EXCEPT !.status.externals = Append(@, may_unblock_at)]
    ELSE [task EXCEPT !.status = StatusBlocked(<<>>, <<may_unblock_at>>)]

\* the sequence without its elements equal to x (Vec::retain)
RECURSIVE Retain(_, _)
Retain(seq, x) ==
    IF seq = <<>> THEN <<>>
    ELSE IF Head(seq) = x THEN Retain(Tail(seq), x)
    ELSE <<Head(seq)>> \o Retain(Tail(seq), x)

\* the sequence without its element at the 0-based index (Vec::remove)
RemoveAt(seq, index) ==
    [i \in 1..(Len(seq) - 1) |-> IF i <= index THEN seq[i] ELSE seq[i + 1]]

\* BlockingStatus::is_ready
BlockingIsReady(status) == status.tasks = <<>> /\ status.externals = <<>>

\* the status after an unblock: Ready once both lists are empty
AfterUnblock(status) == IF BlockingIsReady(status) THEN StatusReady ELSE status

\* Task::unblock_task(task_id)
TaskUnblockTask(task, task_id) ==
    IF IsBlocked(task)
    THEN [task EXCEPT !.status = AfterUnblock([@ EXCEPT !.tasks = Retain(@, task_id)])]
    ELSE task

\* Task::unblock_external(reason_index)
TaskUnblockExternal(task, reason_index) ==
    IF IsBlocked(task)
    THEN [task EXCEPT !.status =
             AfterUnblock(IF reason_index < Len(@.externals)
                          THEN [@ EXCEPT !.externals = RemoveAt(@, reason_index)]
                          ELSE @)]
    ELSE task

\* Task::record(duration)
TaskRecord(task, duration) == [task EXCEPT !.actual_total = @ + duration]

\* Session::update_progress_task(task_id, progress)
UpdateProgressTask(task, progress) == [task EXCEPT !.progress = progress]

\* Task::update_remaining returns Err
UpdateRemainingErr(task) == ~IsReady(task) /\ ~IsBlocked(task)

\* update_remaining without the status check
TaskUpdateRemainingUnguarded(task, estimated_remaining) ==
    [task EXCEPT !.estimate = SomeEstimate(EstimateAdd(estimated_remaining,
                                                      EstimateNew(task.actual_total))),
                 !.progress = None]

\* Task::update_remaining on a Ready or Blocked task
\* update_remaining that stores the estimate as given
TaskUpdateRemainingAsTotal(task, estimated_remaining) ==
    IF ~IsReady(task) /\ ~IsBlocked(task) THEN task
    ELSE [task EXCEPT !.estimate = SomeEstimate(estimated_remaining), !.progress = None]

TaskUpdateRemaining(task, estimated_remaining) ==
    IF ~IsReady(task) /\ ~IsBlocked(task) THEN task
    ELSE [task EXCEPT !.estimate = SomeEstimate(EstimateAdd(estimated_remaining,
                                                           EstimateNew(task.actual_total))),
                      !.progress = None]

----------------------------------------------------------------------------
(* Scheduler: calendar-aware projection.                                   *)
(* `CHOOSE out \in {e : x \in {d}} : TRUE` is e with x bound to the value  *)
(* of d, computed once, as `let x = d;` computes it once.                  *)

AvailableWindows(ws) == SelectSeq(ws, Available)

\* the `while cursor < end && remaining > 0` loop of project_finish
RECURSIVE FinishWindow(_, _, _, _, _)
FinishWindow(cursor, end, remaining, work_tick, buffer) ==
    IF cursor < end /\ remaining > 0
    THEN CHOOSE out \in
            { FinishWindow(cursor + work + buffer, end, remaining - work, work_tick, buffer) :
                work \in {Min(Min(end - cursor, work_tick), remaining)} } : TRUE
    ELSE [cursor |-> cursor, remaining |-> remaining]

\* the `for window in ...` loop of project_finish, from window i on
RECURSIVE FinishWindows(_, _, _, _, _, _)
FinishWindows(ws, i, start, remaining, work_tick, buffer) ==
    IF i > Len(ws) THEN start + remaining
    ELSE CHOOSE out \in
            { IF after.remaining <= 0 THEN after.cursor - buffer
              ELSE FinishWindows(ws, i + 1, start, after.remaining, work_tick, buffer) :
                after \in {FinishWindow(Max(StartDatetime(ws[i]), start), EndDatetime(ws[i]),
                                        remaining, work_tick, buffer)} } : TRUE

\* project_finish(start, remaining, calendar, work_tick, buffer)
ProjectFinish(start, remaining, cal, work_tick, buffer) ==
    CHOOSE out \in
        { FinishWindows(ws, 1, start, remaining, work_tick, buffer) :
            ws \in {AvailableWindows(TimeWindows(cal, start))} } : TRUE

\* the `while t > win_start && remaining > 0` loop of project_start_before
RECURSIVE StartWindow(_, _, _, _, _)
StartWindow(t, win_start, remaining, work_tick, buffer) ==
    IF t > win_start /\ remaining > 0
    THEN CHOOSE out \in
            { StartWindow(t - (work + buffer), win_start, remaining - work, work_tick, buffer) :
                work \in {Min(Min(t - win_start, work_tick), remaining)} } : TRUE
    ELSE [t |-> t, remaining |-> remaining]

\* the `for window in ...` loop of project_start_before, from window i on
RECURSIVE StartWindows(_, _, _, _, _, _, _)
StartWindows(ws, i, cursor, finish, remaining, work_tick, buffer) ==
    IF i > Len(ws) THEN finish - remaining
    ELSE CHOOSE out \in
            { IF after.remaining <= 0 THEN after.t + buffer
              ELSE StartWindows(ws, i + 1, StartDatetime(ws[i]), finish, after.remaining,
                                work_tick, buffer) :
                after \in {StartWindow(Min(EndDatetime(ws[i]), cursor), StartDatetime(ws[i]),
                                       remaining, work_tick, buffer)} } : TRUE

\* project_start_before(finish, remaining, calendar, work_tick, buffer)
ProjectStartBefore(finish, remaining, cal, work_tick, buffer) ==
    CHOOSE out \in
        { StartWindows(ws, 1, finish, finish, remaining, work_tick, buffer) :
            ws \in {AvailableWindows(TimeWindowsRev(cal, finish))} } : TRUE

----------------------------------------------------------------------------
(* Scheduler: the derived maps.  A result carries fail = "none", "panic"   *)
(* (an unwrap / expect / division that aborts) or "overflow" (a recursion  *)
(* deeper than the stack).                                                 *)

TaskIds(tks) == DatesAscending(DOMAIN tks)
Put(map, key, value) == [k \in (DOMAIN map) \cup {key} |-> IF k = key THEN value ELSE map[k]]
EmptyMap == [k \in {} |-> 0]
Failed(kind) == [memo |-> EmptyMap, val |-> 0, fail |-> kind]
Done(memo, val) == [memo |-> memo, val |-> val, fail |-> "none"]

\* a dfs that leaves the external blockers out of the earliest start
EarliestExternalsSkipped(externals, i, ctx, earliest) == Done(EmptyMap, earliest)

\* the `for ext in &bs.externals` loop of compute_earliest_start_map::dfs
RECURSIVE EarliestExternals(_, _, _, _)
EarliestExternals(externals, i, ctx, earliest) ==
    IF i > Len(externals) THEN Done(EmptyMap, earliest)
    ELSE CHOOSE out \in
            { IF ~r.ok THEN Failed("panic")
              ELSE EarliestExternals(externals, i + 1, ctx,
                                     IF r.some /\ r.at > earliest THEN r.at ELSE earliest) :
                r \in {ResolveWithCalendar(externals[i], ctx.calendar, ctx.default_time)} } : TRUE

RECURSIVE EarliestDfs(_, _, _, _)
RECURSIVE EarliestDeps(_, _, _, _, _, _)

\* one blocker that is not Completed: dep_start = dfs(dep), then project_finish
EarliestUnblock(dep_task, r, ctx) ==
    IF r.fail # "none" THEN r
    ELSE IF RemainingPanics(dep_task) THEN Failed("panic")
    ELSE Done(r.memo, ProjectFinish(r.val, Remaining(dep_task), ctx.calendar,
                                    ctx.work_tick, ctx.buffer))

\* the `for dep_task_id in &bs.tasks` loop of compute_earliest_start_map::dfs
EarliestDeps(deps, i, ctx, memo, earliest, depth) ==
    IF i > Len(deps) THEN Done(memo, earliest)
    ELSE IF IsCompleted(ctx.tasks[deps[i]])
         THEN EarliestDeps(deps, i + 1, ctx, memo,
                           Max(earliest, ctx.tasks[deps[i]].status.at), depth)
         ELSE CHOOSE out \in
                { IF u.fail # "none" THEN u
                  ELSE EarliestDeps(deps, i + 1, ctx, u.memo, Max(earliest, u.val), depth) :
                    u \in { CHOOSE v \in { EarliestUnblock(ctx.tasks[deps[i]], r, ctx) :
                                r \in {EarliestDfs(deps[i], ctx, memo, depth + 1)} } : TRUE }
                } : TRUE

\* compute_earliest_start_map::dfs, called at stack depth `depth`
EarliestDfs(task_id, ctx, memo, depth) ==
    IF task_id \in DOMAIN memo THEN Done(memo, memo[task_id])
    ELSE IF depth > MaxStack THEN Failed("overflow")
    ELSE IF ~IsBlocked(ctx.tasks[task_id]) THEN Done(Put(memo, task_id, ctx.now), ctx.now)
    ELSE CHOOSE out \in
            { IF ext.fail # "none" THEN ext
              ELSE CHOOSE res \in
                     { IF deps.fail # "none" THEN deps
                       ELSE Done(Put(deps.memo, task_id, deps.val), deps.val) :
                         deps \in {EarliestDeps(ctx.tasks[task_id].status.tasks, 1, ctx, memo,
                                                ext.val, depth)} } : TRUE :
                ext \in {EarliestExternals(ctx.tasks[task_id].status.externals, 1, ctx, ctx.now)}
            } : TRUE

\* the `for id in tasks.keys()` loop of compute_earliest_start_map
RECURSIVE EarliestAll(_, _, _, _)
EarliestAll(ids, i, ctx, memo) ==
    IF i > Len(ids) THEN Done(memo, 0)
    ELSE CHOOSE out \in
            { IF r.fail # "none" THEN r ELSE EarliestAll(ids, i + 1, ctx, r.memo) :
                r \in {EarliestDfs(ids[i], ctx, memo, 1)} } : TRUE

\* compute_earliest_start_map(tasks, calendar, now, default_time, work_tick, buffer)
ComputeEarliestStartMap(tks, cal, now, default_time, work_tick, buffer) ==
    EarliestAll(TaskIds(tks), 1,
                [tasks |-> tks, calendar |-> cal, now |-> now, default_time |-> default_time,
                 work_tick |-> work_tick, buffer |-> buffer],
                EmptyMap)

\* build_rev_graph(tasks): dep -> the tasks it blocks, in the order they are pushed
RECURSIVE RevPush(_, _, _, _)
RevPush(rev_graph, deps, i, id) ==
    IF i > Len(deps) THEN rev_graph
    ELSE CHOOSE out \in
            { RevPush(pushed, deps, i + 1, id) :
                pushed \in { Put(rev_graph, deps[i],
                                 IF deps[i] \in DOMAIN rev_graph
                                 THEN Append(rev_graph[deps[i]], id) ELSE <<id>>) } } : TRUE

RECURSIVE RevGraphFrom(_, _, _, _)
RevGraphFrom(tks, ids, i, rev_graph) ==
    IF i > Len(ids) THEN rev_graph
    ELSE CHOOSE out \in
            { RevGraphFrom(tks, ids, i + 1, pushed) :
                pushed \in { IF IsBlocked(tks[ids[i]])
                             THEN RevPush(rev_graph, tks[ids[i]].status.tasks, 1, ids[i])
                             ELSE rev_graph } } : TRUE

BuildRevGraph(tks) == RevGraphFrom(tks, TaskIds(tks), 1, EmptyMap)

\* NaiveDateTime::MAX: after every date of the calendar
NaiveDateTimeMax == AndTime(MaxDate + 1, DayUnits - 1)

\* children.iter().filter_map(|ch| latest.get(ch)).min()
MinChild(children, latest) ==
    LET known == {latest[children[i]] : i \in {j \in 1..Len(children) : children[j] \in DOMAIN latest}}
    IN  CHOOSE m \in known : \A x \in known : m <= x

RECURSIVE LatestDfs(_, _, _, _)
RECURSIVE LatestChildren(_, _, _, _, _)

\* the `for &ch in children` loop of compute_latest_start_map::dfs
LatestChildren(children, i, ctx, latest, depth) ==
    IF i > Len(children) THEN Done(latest, 0)
    ELSE CHOOSE out \in
            { IF r.fail # "none" THEN r ELSE LatestChildren(children, i + 1, ctx, r.memo, depth) :
                r \in {LatestDfs(children[i], ctx, latest, depth + 1)} } : TRUE

\* the branch of a task with children, once the children are done
LatestFromChildren(id, ctx, after) ==
    IF after.fail # "none" THEN after
    ELSE IF RemainingPanics(ctx.tasks[id]) THEN Failed("panic")
    ELSE Done(Put(after.memo, id,
                  ProjectStartBefore(MinChild(ctx.rev[id], after.memo), Remaining(ctx.tasks[id]),
                                     ctx.calendar, ctx.work_tick, ctx.buffer)),
              0)

\* the branch of a task with no deadline and no children
LatestFromLastWindow(id, ctx, latest, last) ==
    IF last = <<>> \/ RemainingPanics(ctx.tasks[id]) THEN Failed("panic")
    ELSE Done(Put(latest, id,
                  AndTime(last[1].date, TimeAdd(last[1].end, -Remaining(ctx.tasks[id])))),
              0)

\* compute_latest_start_map::dfs, called at stack depth `depth`
LatestDfs(id, ctx, latest, depth) ==
    IF id \in DOMAIN latest THEN Done(latest, 0)
    ELSE IF depth > MaxStack THEN Failed("overflow")
    ELSE IF id \in DOMAIN ctx.rev
    THEN CHOOSE out \in
            { LatestFromChildren(id, ctx, after) :
                after \in {LatestChildren(ctx.rev[id], 1, ctx, latest, depth)} } : TRUE
    ELSE CHOOSE out \in
            { LatestFromLastWindow(id, ctx, latest, last) :
                last \in {AvailableWindows(TimeWindowsRev(ctx.calendar, NaiveDateTimeMax))} } : TRUE

\* step 1 of compute_latest_start_map: the tasks with a resolvable deadline
RECURSIVE LatestDeadlines(_, _, _, _)
LatestDeadlines(ids, i, ctx, latest) ==
    IF i > Len(ids) THEN Done(latest, 0)
    ELSE CHOOSE out \in
            { IF ~r.ok THEN Failed("panic")
              ELSE IF ~r.some THEN LatestDeadlines(ids, i + 1, ctx, latest)
              ELSE IF RemainingPanics(ctx.tasks[ids[i]]) THEN Failed("panic")
              ELSE CHOOSE res \in
                     { LatestDeadlines(ids, i + 1, ctx, inserted) :
                         inserted \in { Put(latest, ids[i],
                                            ProjectStartBefore(r.at, Remaining(ctx.tasks[ids[i]]),
                                                               ctx.calendar, ctx.work_tick,
                                                               ctx.buffer)) } } : TRUE :
                r \in {ResolveWithCalendar(ctx.tasks[ids[i]].deadline, ctx.calendar,
                                           ctx.default_time)} } : TRUE

\* step 2 of compute_latest_start_map: the `for &id in tasks.keys()` loop
RECURSIVE LatestAll(_, _, _, _)
LatestAll(ids, i, ctx, latest) ==
    IF i > Len(ids) THEN Done(latest, 0)
    ELSE CHOOSE out \in
            { IF r.fail # "none" THEN r ELSE LatestAll(ids, i + 1, ctx, r.memo) :
                r \in {LatestDfs(ids[i], ctx, latest, 1)} } : TRUE

\* compute_latest_start_map(tasks, rev_graph, calendar, default_time, work_tick, buffer)
ComputeLatestStartMap(tks, rev_graph, cal, default_time, work_tick, buffer) ==
    CHOOSE out \in
        { IF first.fail # "none" THEN first
          ELSE LatestAll(TaskIds(tks), 1,
                         [tasks |-> tks, rev |-> rev_graph, calendar |-> cal,
                          default_time |-> default_time, work_tick |-> work_tick,
                          buffer |-> buffer],
                         first.memo) :
            first \in { LatestDeadlines(TaskIds(tks), 1,
                                        [tasks |-> tks, rev |-> rev_graph, calendar |-> cal,
                                         default_time |-> default_time, work_tick |-> work_tick,
                                         buffer |-> buffer],
                                        EmptyMap) } } : TRUE

RECURSIVE DependentsDfs(_, _, _)
RECURSIVE DependentsChildren(_, _, _, _, _)

\* the `for &ch in children` loop of compute_dependents_map::dfs
DependentsChildren(children, i, rev_graph, memo, all) ==
    IF i > Len(children) THEN [memo |-> memo, all |-> all]
    ELSE CHOOSE out \in
            { DependentsChildren(children, i + 1, rev_graph, r.memo,
                                 all \cup {children[i]} \cup r.all) :
                r \in {DependentsDfs(children[i], rev_graph, memo)} } : TRUE

\* compute_dependents_map::dfs: the placeholder is inserted before the recursion
DependentsDfs(id, rev_graph, memo) ==
    IF id \in DOMAIN memo THEN [memo |-> memo, all |-> memo[id]]
    ELSE CHOOSE out \in
            { [memo |-> Put(after.memo, id, after.all), all |-> after.all] :
                after \in { IF id \in DOMAIN rev_graph
                            THEN DependentsChildren(rev_graph[id], 1, rev_graph,
                                                    Put(memo, id, {}), {})
                            ELSE [memo |-> Put(memo, id, {}), all |-> {}] } } : TRUE

RECURSIVE DependentsAll(_, _, _, _, _)
DependentsAll(ids, i, rev_graph, memo, counts) ==
    IF i > Len(ids) THEN counts
    ELSE CHOOSE out \in
            { DependentsAll(ids, i + 1, rev_graph, r.memo, Put(counts, ids[i], Cardinality(r.all))) :
                r \in {DependentsDfs(ids[i], rev_graph, memo)} } : TRUE

\* a count of the direct dependents only
CountDirectDependents(tks, rev_graph) ==
    [id \in DOMAIN tks |-> IF id \in DOMAIN rev_graph THEN Len(rev_graph[id]) ELSE 0]

\* compute_dependents_map(tasks, rev_graph)
ComputeDependentsMap(tks, rev_graph) == DependentsAll(TaskIds(tks), 1, rev_graph, EmptyMap, EmptyMap)

----------------------------------------------------------------------------
(* Scheduler: ScheduleContext *)

\* (rem_min / daily_minutes) * daily_minutes in f64 is not always rem_min: the pairs
\* <<rem_min, daily_minutes>> with rem_min <= 60 and daily_minutes <= 15, or the
\* daily_minutes 615 of the scheduler of Session::new, whose product rounds above
\* rem_min, so that .ceil() yields rem_min + 1
F64Inexact == { <<29, 7>>, <<58, 7>>, <<25, 11>>, <<50, 11>>, <<27, 13>>, <<54, 13>>,
                <<57, 13>>, <<29, 14>>, <<58, 14>>, <<31, 15>>,
                <<5, 615>>, <<7, 615>>, <<10, 615>>, <<14, 615>>, <<20, 615>>,
                <<28, 615>>, <<40, 615>>, <<49, 615>>, <<56, 615>> }

\* compute_need_days_map followed by (days * daily_minutes).ceil() as i64
RemainingMinutes(task, daily_minutes) ==
    LET rem_min == NumMinutes(Remaining(task))
    IN  IF rem_min <= 0 THEN 0
        ELSE IF <<rem_min, daily_minutes>> \in F64Inexact THEN rem_min + 1
        ELSE rem_min

\* risk_map: (mean, stddev) in minutes, (0, 0) without an estimate
Risk(task) ==
    IF HasEstimate(task)
    THEN [m |-> NumMinutes(Mean(task.estimate[1])), s |-> NumMinutes(Stddev(task.estimate[1]))]
    ELSE [m |-> 0, s |-> 0]

SetMax(S, least) == IF S = {} THEN least ELSE Max(least, CHOOSE m \in S : \A x \in S : x <= m)

\* the replacement of `now` in ScheduleContext::build
ContextNow(now, cal, working_time) ==
    LET days == OfficialWorkdays(cal, DateOf(now))
    IN  AndTime(IF days = <<>> THEN DateOf(now) ELSE days[1], working_time[1])

NoAlloc == [task |-> 0, cursor |-> 0, date |-> 0, alloc |-> 0, remaining_before |-> 0]

\* the ScheduleContext that build returns once the derived maps are computed
ContextOf(now, start, tks, cal, daily_minutes, earliest, latest, dep_map) ==
    [fail |-> "none",
     arg |-> now,
     now |-> start,
     daily_minutes |-> daily_minutes,
     earliest |-> earliest,
     latest |-> latest,
     dep_map |-> dep_map,
     max_dep |-> SetMax({dep_map[id] : id \in DOMAIN dep_map}, 1),
     risk_map |-> [id \in DOMAIN tks |-> Risk(tks[id])],
     remaining_minutes |-> [id \in DOMAIN tks |-> RemainingMinutes(tks[id], daily_minutes)],
     slots |-> EmptyMap,
     windows |-> TimeWindows(cal, now),
     widx |-> 1,
     cursor |-> 0,
     capacity |-> 0,
     last |-> NoAlloc]

\* ScheduleContext::build; fail is "panic" or "overflow" when a derived map aborts:
\* need (Task::remaining of every task), then earliest, then latest
ContextBuild(now, tks, cal, working_time, work_tick, buffer_time) ==
    IF \E id \in DOMAIN tks : RemainingPanics(tks[id]) THEN [fail |-> "panic"]
    ELSE CHOOSE ctx \in
        { IF earliest.fail # "none" THEN [fail |-> earliest.fail]
          ELSE CHOOSE built \in
                 { IF latest.fail # "none" THEN [fail |-> latest.fail]
                   ELSE ContextOf(now, ContextNow(now, cal, working_time), tks, cal,
                                  NumMinutes(working_time[2] - working_time[1]),
                                  earliest.memo, latest.memo, ComputeDependentsMap(tks, rev_graph)) :
                     latest \in {ComputeLatestStartMap(tks, rev_graph, cal, working_time[1],
                                                       work_tick, buffer_time)} } : TRUE :
            rev_graph \in {BuildRevGraph(tks)},
            earliest \in {ComputeEarliestStartMap(tks, cal, ContextNow(now, cal, working_time),
                                                   working_time[1], work_tick, buffer_time)} } : TRUE

\* a selection loop that filters no task out
EligibleAlways(ctx, id, cursor) == TRUE

\* the filter of the selection loop: !(already_done || cannot_start_yet)
Eligible(ctx, id, cursor) ==
    ~(ctx.remaining_minutes[id] <= 0 \/ ctx.earliest[id] > cursor)

\* (latest[id] - cursor).num_minutes(): the numerator of the slack, over daily_minutes
SlackMinutes(ctx, id, cursor) == NumMinutes(ctx.latest[id] - cursor)

\* calc_max_slack_on(cursor), as a numerator over daily_minutes: fold(1.0, f64::max)
CalcMaxSlackOn(ctx, cursor) ==
    SetMax({SlackMinutes(ctx, id, cursor) :
               id \in {t \in DOMAIN ctx.remaining_minutes :
                          ctx.remaining_minutes[t] > 0 /\ ctx.earliest[t] <= cursor}},
           ctx.daily_minutes)

\* calc_priority_score(id, cursor, max_slack) in exact arithmetic:
\*   urgency over the denominator 1000 * max_slack, clamped to [0.001, 1];
\*   0.7 * r_score + 0.3 * d_score as the fraction num / den
CalcPriorityScore(ctx, id, cursor, max_slack) ==
    LET risk == ctx.risk_map[id]
        dep == IF id \in DOMAIN ctx.dep_map THEN ctx.dep_map[id] ELSE 0
        raw == 1000 * (max_slack - SlackMinutes(ctx, id, cursor))
    IN  [urgency |-> Max(max_slack, Min(raw, 1000 * max_slack)),
         num |-> IF risk.m > 0 THEN 7 * risk.s * ctx.max_dep + 3 * dep * risk.m ELSE 3 * dep,
         den |-> IF risk.m > 0 THEN 10 * risk.m * ctx.max_dep ELSE 10 * ctx.max_dep]

\* score >= bs: the last of the tasks with an equal pair wins
ScoreGreaterOrEqual(score, bs) ==
    \/ score.urgency > bs.urgency
    \/ score.urgency = bs.urgency /\ score.num * bs.den >= bs.num * score.den

\* score > bs on (f64, f64) tuples
ScoreGreater(score, bs) ==
    \/ score.urgency > bs.urgency
    \/ score.urgency = bs.urgency /\ score.num * bs.den > bs.num * score.den

\* the `for &id in tasks.keys()` selection loop of schedule; best = 0 is None
RECURSIVE PickBest(_, _, _, _, _, _)
PickBest(ctx, ids, i, cursor, max_slack, best) ==
    IF i > Len(ids) THEN best
    ELSE IF ~Eligible(ctx, ids[i], cursor) THEN PickBest(ctx, ids, i + 1, cursor, max_slack, best)
    ELSE IF best = 0
            \/ ScoreGreater(CalcPriorityScore(ctx, ids[i], cursor, max_slack),
                            CalcPriorityScore(ctx, best, cursor, max_slack))
         THEN PickBest(ctx, ids, i + 1, cursor, max_slack, ids[i])
         ELSE PickBest(ctx, ids, i + 1, cursor, max_slack, best)

Best(ctx) ==
    PickBest(ctx, DatesAscending(DOMAIN ctx.remaining_minutes), 1, ctx.cursor,
             CalcMaxSlackOn(ctx, ctx.cursor), 0)

\* SlotMap::add(date, task_id, duration)
SlotAdd(slot_map, date, task_id, duration) ==
    Put(slot_map, <<date, task_id>>,
        IF <<date, task_id>> \in DOMAIN slot_map THEN slot_map[<<date, task_id>>] + duration
        ELSE duration)

\* SlotMap::remaining_at(date, task_id)
SlotRemainingAt(slot_map, date, task_id) ==
    IF <<date, task_id>> \in DOMAIN slot_map THEN slot_map[<<date, task_id>>] ELSE None

\* consume that keeps an entry whatever is left of it
SlotConsumeKeeping(slot_map, date, task_id, duration) ==
    IF <<date, task_id>> \in DOMAIN slot_map
    THEN [slot_map EXCEPT ![<<date, task_id>>] = @ - duration]
    ELSE slot_map

\* SlotMap::consume(date, task_id, duration)
SlotConsume(slot_map, date, task_id, duration) ==
    IF <<date, task_id>> \in DOMAIN slot_map
    THEN IF slot_map[<<date, task_id>>] - duration <= 0
         THEN [k \in (DOMAIN slot_map) \ {<<date, task_id>>} |-> slot_map[k]]
         ELSE [slot_map EXCEPT ![<<date, task_id>>] = @ - duration]
    ELSE slot_map

\* an allocation after which schedule leaves capacity and cursor as they were
AllocateKeepingCapacity(ctx, task_id, work_tick, buffer_time) ==
    LET alloc == Min(Min(ctx.remaining_minutes[task_id] * Minute, work_tick), ctx.capacity)
    IN  [ctx EXCEPT
            !.slots = SlotAdd(@, DateOf(ctx.cursor), task_id, alloc),
            !.last = [task |-> task_id, cursor |-> ctx.cursor, date |-> DateOf(ctx.cursor),
                      alloc |-> alloc, remaining_before |-> ctx.remaining_minutes[task_id]]]

\* ScheduleContext::allocate(task_id, work_tick, cursor, capacity), with the
\* cursor and capacity updates that follow it in schedule
Allocate(ctx, task_id, work_tick, buffer_time) ==
    LET alloc == Min(Min(ctx.remaining_minutes[task_id] * Minute, work_tick), ctx.capacity)
    IN  [ctx EXCEPT
            !.slots = SlotAdd(@, DateOf(ctx.cursor), task_id, alloc),
            !.remaining_minutes[task_id] = Max(@ - NumMinutes(alloc), 0),
            !.capacity = @ - (alloc + buffer_time),
            !.cursor = @ + (alloc + buffer_time),
            !.last = [task |-> task_id, cursor |-> ctx.cursor, date |-> DateOf(ctx.cursor),
                      alloc |-> alloc, remaining_before |-> ctx.remaining_minutes[task_id]]]

\* find_first_allocatable_time(from, to): None when no task qualifies
FindFirstAllocatableTime(ctx, from, to) ==
    LET times == {ctx.earliest[id] : id \in {t \in DOMAIN ctx.remaining_minutes :
                                                ctx.remaining_minutes[t] > 0}}
        inside == {t \in times : t > from /\ t < to}
    IN  IF inside = {} THEN None ELSE CHOOSE m \in inside : \A x \in inside : m <= x

----------------------------------------------------------------------------
(* The inputs of the calendar enumeration *)

\* the default working window of the model's calendars (Calendar::new's argument)
DefaultWorkingTime == << Minute, (DayLen - 2) * Minute >>

\* the scheduled items of the model, as import_from_yaml builds them from a start
\* and an end time of the day: every whole-minute start, short and long
ItemDurations == {Minute, 3 * Minute}
Items == {it \in [start : Times, duration : ItemDurations, note : {0}] :
             it.start + it.duration \in Times}

\* the per-day working time overrides of the model: none, an earlier start, a later end
Overrides == { <<None, None>>, <<0, None>>, <<None, (DayLen - 1) * Minute>> }

\* calendars as import_from_yaml builds them: workdays added, items and overrides set
RECURSIVE CalWithItems(_, _, _)
CalWithItems(cal, date, items) ==
    IF items = {} THEN cal
    ELSE LET item == CHOOSE a \in items : TRUE
         IN  CalWithItems(CalAddScheduledItem(cal, date, item), date, items \ {item})

RECURSIVE CalWithDays(_, _, _)
CalWithDays(cal, dates, official) ==
    IF dates = {} THEN cal
    ELSE LET d == CHOOSE a \in dates : TRUE
         IN  CalWithDays(CalAddWorkingDay(cal, d, d \in official), dates \ {d}, official)

CalendarInputs ==
    { CalUpdateWorkingTime(
          CalWithItems(CalWithDays(CalendarNew(DefaultWorkingTime), Dates, official), 0, items),
          0, ov[1], ov[2]) :
        official \in SUBSET Dates,
        items \in {I \in SUBSET Items : Cardinality(I) <= MaxItems},
        ov \in Overrides }

\* the arguments of the enumerations: every time of the first day, the start of the others
EnumArgs == {AndTime(0, t) : t \in Times} \cup {AndTime(d, 0) : d \in Dates}

NoTasks == [i \in {} |-> 0]
NoSlots == [k \in {} |-> 0]
\* WorkLog::new
NoLog == <<>>
\* Session.active_task is None; Some((task_id, start_at)) is <<task_id, start_at>>
NoActive == <<>>
NoSched == [phase |-> "none"]
DefaultScheduler == [work_tick |-> Minute, buffer_time |-> 0, working_time |-> DefaultWorkingTime]

InitCal ==
    /\ calendar \in CalendarInputs
    /\ tasks = NoTasks
    /\ scheduler = DefaultScheduler
    /\ slots = NoSlots
    /\ pc = "idle"
    /\ sched = NoSched
    /\ fwd = NotCalled
    /\ rev = NotCalled
    /\ call = NoCall
    /\ log = NoLog
    /\ active_task = NoActive

\* a call of Calendar::time_windows(from), its iterator drained
CallTimeWindows ==
    \E from \in EnumArgs :
        /\ pc = "idle"
        /\ ~fwd.called
        /\ fwd' = [called |-> TRUE, arg |-> from, windows |-> TimeWindows(calendar, from)]
        /\ UNCHANGED <<calendar, tasks, scheduler, slots, pc, sched, rev, call, log, active_task>>

\* a call of Calendar::time_windows_rev(until), its iterator drained
CallTimeWindowsRev ==
    \E until \in EnumArgs :
        /\ pc = "idle"
        /\ ~rev.called
        /\ rev' = [called |-> TRUE, arg |-> until, windows |-> TimeWindowsRev(calendar, until)]
        /\ UNCHANGED <<calendar, tasks, scheduler, slots, pc, sched, fwd, call, log, active_task>>

NextCal == CallTimeWindows \/ CallTimeWindowsRev

SpecCal == InitCal /\ [][NextCal]_vars

----------------------------------------------------------------------------
(* Claims about the calendar enumeration *)

\* tests::tupled: the (start_datetime, end_datetime) pairs of a window sequence
Tupled(ws) == [i \in 1..Len(ws) |-> <<StartDatetime(ws[i]), EndDatetime(ws[i])>>]
\* [from, until] holds every window of both enumerations whole: nothing is cut
\* by "up to until" or "down to from"
CoversBoth(from, until) ==
    /\ from <= until
    /\ \A i \in 1..Len(fwd.windows) :
          from <= StartDatetime(fwd.windows[i]) /\ EndDatetime(fwd.windows[i]) <= until
    /\ \A i \in 1..Len(rev.windows) :
          from <= StartDatetime(rev.windows[i]) /\ EndDatetime(rev.windows[i]) <= until

\* C8: for every calendar and from <= until, the (start, end) pairs that
\* time_windows(from) emits up to until, reversed, are the pairs that
\* time_windows_rev(until) emits down to from, Busy windows included.  Stated
\* where [from, until] holds all emitted windows whole, as in the tests.
C8_ForwardReversedIsReverse ==
    (fwd.called /\ rev.called /\ CoversBoth(fwd.arg, rev.arg)) =>
        Reverse(Tupled(fwd.windows)) = Tupled(rev.windows)

\* C9: the windows time_windows emits for one day are contiguous (each starts
\* where the previous one ends) and no two of them overlap except at endpoints.
C9_DayWindowsContiguous ==
    fwd.called =>
        /\ \A i \in 1..(Len(fwd.windows) - 1) :
              fwd.windows[i].date = fwd.windows[i + 1].date
                  => fwd.windows[i + 1].start = fwd.windows[i].end
        /\ \A i, j \in 1..Len(fwd.windows) :
              (i < j /\ fwd.windows[i].date = fwd.windows[j].date)
                  => ~(fwd.windows[i].start < fwd.windows[j].end
                       /\ fwd.windows[j].start < fwd.windows[i].end)

\* an Available window inside the working hours of its day and clear of every
\* scheduled item [start, start + duration) of that day
AvailableIsFree(cal, w) ==
    LET wt == WorkingTimeOrDefault(cal, w.date)
    IN  /\ wt[1] <= w.start
        /\ w.end <= wt[2]
        /\ \A item \in ScheduledItems(cal, w.date) :
              ~(w.start < item.start + item.duration /\ item.start < w.end)

\* C10: every Available window emitted by time_windows or time_windows_rev lies
\* inside the working hours of its day and intersects no scheduled item of it.
C10_AvailableInsideHoursAndFree ==
    /\ \A i \in 1..Len(fwd.windows) :
          Available(fwd.windows[i]) => AvailableIsFree(calendar, fwd.windows[i])
    /\ \A i \in 1..Len(rev.windows) :
          Available(rev.windows[i]) => AvailableIsFree(calendar, rev.windows[i])

\* C11: every window that time_windows(from) emits starts at or after from,
\* whether from falls before, inside or after the scheduled items of its day.
C11_WindowsStartAtOrAfterFrom ==
    fwd.called =>
        \A i \in 1..Len(fwd.windows) : StartDatetime(fwd.windows[i]) >= fwd.arg

----------------------------------------------------------------------------
(* Calendar operations: working days and working-time overrides of an empty   *)
(* calendar, called in any order                                              *)

\* the start and end arguments of update_working_time
WorkTimeArgs == {None, Minute, 2 * Minute}

InitCalOps ==
    /\ calendar = CalendarNew(DefaultWorkingTime)
    /\ tasks = NoTasks
    /\ scheduler = DefaultScheduler
    /\ slots = NoSlots
    /\ pc = "idle"
    /\ sched = NoSched
    /\ fwd = NotCalled
    /\ rev = NotCalled
    /\ call = NoCall
    /\ log = NoLog
    /\ active_task = NoActive

CallAddWorkingDay ==
    \E date \in Dates, official \in BOOLEAN :
        /\ calendar' = CalAddWorkingDay(calendar, date, official)
        /\ call' = [op |-> "add_working_day", date |-> date, official |-> official]
        /\ UNCHANGED <<tasks, scheduler, slots, pc, sched, fwd, rev, log, active_task>>

CallRemoveWorkingDay ==
    \E date \in Dates, official \in BOOLEAN :
        /\ calendar' = CalRemoveWorkingDay(calendar, date, official)
        /\ call' = [op |-> "remove_working_day", date |-> date, official |-> official]
        /\ UNCHANGED <<tasks, scheduler, slots, pc, sched, fwd, rev, log, active_task>>

CallUpdateWorkingTime ==
    \E date \in Dates, start \in WorkTimeArgs, end \in WorkTimeArgs :
        /\ calendar' = CalUpdateWorkingTime(calendar, date, start, end)
        /\ call' = [op |-> "update_working_time", date |-> date, start |-> start, end |-> end]
        /\ UNCHANGED <<tasks, scheduler, slots, pc, sched, fwd, rev, log, active_task>>

NextCalOps == CallAddWorkingDay \/ CallRemoveWorkingDay \/ CallUpdateWorkingTime

SpecCalOps == InitCalOps /\ [][NextCalOps]_vars

\* C12: after any sequence of add_working_day and remove_working_day calls,
\* with either value of `official`, every official date is a key of the day map.
C12_OfficialDaysAreKnown ==
    calendar.official_days \subseteq DOMAIN calendar.calendar_days

\* the day has both working-time overrides set
BothOverridesSet(day) == day.work_start_time # None /\ day.work_end_time # None

\* the last call was update_working_time with both times given and start >= end
RejectedUpdate(c) ==
    /\ c.op = "update_working_time"
    /\ c.start # None /\ c.end # None
    /\ c.start >= c.end

\* C13: after any sequence of update_working_time calls every known day with
\* both overrides set has start < end, and a call with both times given and
\* start >= end leaves the calendar as it was.
C13_OverridesOrdered ==
    /\ [](\A d \in DOMAIN calendar.calendar_days :
            BothOverridesSet(calendar.calendar_days[d])
                => calendar.calendar_days[d].work_start_time
                       < calendar.calendar_days[d].work_end_time)
    /\ [][RejectedUpdate(call') => calendar' = calendar]_vars

\* a rejected call on a known day that holds an ordered pair of overrides
C13_Witness ==
    /\ RejectedUpdate(call)
    /\ call.date \in DOMAIN calendar.calendar_days
    /\ BothOverridesSet(calendar.calendar_days[call.date])

----------------------------------------------------------------------------
(* The inputs of the scheduling pass *)

\* Scheduler { work_tick, buffer_time, working_time }: a tick with no buffer, a
\* longer tick with a buffer
SchedulerInputs ==
    { DefaultScheduler,
      [work_tick |-> 2 * Minute, buffer_time |-> Minute, working_time |-> DefaultWorkingTime] }

\* the meeting of the first day
Meeting == [start |-> 2 * Minute, duration |-> Minute, note |-> 0]

\* the official days of the calendars of the pass: none, the first days, the last day
OfficialInputs == {0..(n - 1) : n \in 0..(MaxDate + 1)} \cup {{MaxDate}}

\* calendars of the pass: the first day with or without a meeting and with or
\* without a later end of work
ScheduleCalendars ==
    { CalUpdateWorkingTime(
          CalWithItems(CalWithDays(CalendarNew(DefaultWorkingTime), Dates, official), 0, items),
          0, None, work_end) :
        official \in OfficialInputs,
        items \in {{}, {Meeting}},
        work_end \in {None, (DayLen - 1) * Minute} }

\* the `now` of the pass: midnight of the first day, or a minute into its work
NowInputs == {AndTime(0, 0), AndTime(0, 2 * Minute)}

TaskIDs == 1..NumTasks
Other(id) == (id % NumTasks) + 1
Estimated(task, minutes) == TaskUpdateRemaining(task, EstimateNew(minutes * Minute))

\* the tasks a task map may hold under id
TaskShapes(id) ==
    { TaskNew(DeadlineNone),
      Estimated(TaskNew(DeadlineExact(AndTime(MaxDate, 3 * Minute))), 1),
      TaskBlockByExternal(Estimated(TaskNew(DeadlineNone), 3),
                          DeadlineExact(AndTime(0, (DayLen - 2) * Minute))),
      TaskBlockByTask(Estimated(TaskNew(DeadlineExact(AndTime(0, 3 * Minute))), 1), <<Other(id)>>),
      TaskBlockByTask(Estimated(TaskNew(DeadlineNone), 1), <<id>>),
      TaskNew(DeadlineFuzzy("BusinessDays", AndTime(0, 0), MaxDate + 1, None)),
      TaskComplete(Estimated(TaskNew(DeadlineNone), 1), AndTime(0, 2 * Minute)),
      TaskDrop(Estimated(TaskNew(DeadlineNone), 1)),
      Estimated(TaskNew(DeadlineFuzzy("BusinessDays", AndTime(0, 0), 0, None)), 2) }

\* task maps: every id holds a task, at most two of them not Completed
TaskInputs ==
    { tm \in [TaskIDs -> UNION {TaskShapes(id) : id \in TaskIDs}] :
        /\ \A id \in TaskIDs : tm[id] \in TaskShapes(id)
        /\ Cardinality({id \in TaskIDs : ~IsCompleted(tm[id])}) <= 2 }

Init ==
    /\ calendar \in ScheduleCalendars
    /\ tasks \in TaskInputs
    /\ scheduler \in SchedulerInputs
    /\ slots = NoSlots
    /\ pc = "idle"
    /\ sched = NoSched
    /\ fwd = NotCalled
    /\ rev = NotCalled
    /\ call = NoCall
    /\ log = NoLog
    /\ active_task = NoActive

----------------------------------------------------------------------------
(* Scheduler::schedule(now, tasks, calendar), one step of its loops at a time. *)
(* pc is "idle" before the call, "windows" between two windows, "loop" inside  *)
(* the while loop of a window, "done" once the SlotMap is returned, "panicked" *)
(* when the call aborts and "overflow" when its recursion exhausts the stack.  *)

CurrentWindow == sched.windows[sched.widx]

\* the call, up to the first window: ScheduleContext::build and time_windows(now)
ScheduleStart ==
    \E now \in NowInputs :
        \E ctx \in { ContextBuild(now, tasks, calendar, scheduler.working_time,
                                  scheduler.work_tick, scheduler.buffer_time) } :
            /\ pc = "idle"
            /\ sched' = ctx
            /\ pc' = CASE ctx.fail = "none" -> "windows"
                       [] ctx.fail = "panic" -> "panicked"
                       [] OTHER -> "overflow"
            /\ UNCHANGED <<calendar, tasks, scheduler, slots, fwd, rev, call, log, active_task>>

\* `if !window.available() { continue; }`
SkipBusyWindow ==
    /\ pc = "windows"
    /\ sched.widx <= Len(sched.windows)
    /\ ~Available(CurrentWindow)
    /\ sched' = [sched EXCEPT !.widx = @ + 1]
    /\ UNCHANGED <<calendar, tasks, scheduler, slots, pc, fwd, rev, call, log, active_task>>

\* cursor = window.start_datetime(); capacity = window.end - window.start
EnterWindow ==
    /\ pc = "windows"
    /\ sched.widx <= Len(sched.windows)
    /\ Available(CurrentWindow)
    /\ sched' = [sched EXCEPT !.cursor = StartDatetime(CurrentWindow),
                              !.capacity = CurrentWindow.end - CurrentWindow.start]
    /\ pc' = "loop"
    /\ UNCHANGED <<calendar, tasks, scheduler, slots, fwd, rev, call, log, active_task>>

\* an iteration of the while loop that finds a best task and allocates to it
LoopAllocate ==
    /\ pc = "loop"
    /\ sched.capacity > 0
    /\ Best(sched) # 0
    /\ sched' = Allocate(sched, Best(sched), scheduler.work_tick, scheduler.buffer_time)
    /\ UNCHANGED <<calendar, tasks, scheduler, slots, pc, fwd, rev, call, log, active_task>>

\* an iteration that finds no task but a later start inside the window:
\* capacity is taken from the cursor before it moves
LoopJump ==
    LET earliest_allocatable_time ==
            FindFirstAllocatableTime(sched, sched.cursor, EndDatetime(CurrentWindow))
    IN  /\ pc = "loop"
        /\ sched.capacity > 0
        /\ Best(sched) = 0
        /\ earliest_allocatable_time # None
        /\ sched' = [sched EXCEPT !.capacity = EndDatetime(CurrentWindow) - sched.cursor,
                                  !.cursor = earliest_allocatable_time]
        /\ UNCHANGED <<calendar, tasks, scheduler, slots, pc, fwd, rev, call, log, active_task>>

\* the while loop ends: no capacity left, or `break`
LoopBreak ==
    /\ pc = "loop"
    /\ \/ sched.capacity <= 0
       \/ /\ Best(sched) = 0
          /\ FindFirstAllocatableTime(sched, sched.cursor, EndDatetime(CurrentWindow)) = None
    /\ sched' = [sched EXCEPT !.widx = @ + 1]
    /\ pc' = "windows"
    /\ UNCHANGED <<calendar, tasks, scheduler, slots, fwd, rev, call, log, active_task>>

\* Ok(context.slots)
ScheduleReturn ==
    /\ pc = "windows"
    /\ sched.widx > Len(sched.windows)
    /\ slots' = sched.slots
    /\ pc' = "done"
    /\ UNCHANGED <<calendar, tasks, scheduler, sched, fwd, rev, call, log, active_task>>

Next ==
    \/ ScheduleStart
    \/ SkipBusyWindow
    \/ EnterWindow
    \/ LoopAllocate
    \/ LoopJump
    \/ LoopBreak
    \/ ScheduleReturn

Spec == Init /\ [][Next]_vars

----------------------------------------------------------------------------
(* Claims about the scheduling pass *)

\* the pass has built its context and has not aborted
Running == pc \in {"windows", "loop", "done"}
\* an allocation has been made; sched.last describes the latest one
Allocated == Running /\ sched.last.task # 0

RECURSIVE SumOver(_, _)
SumOver(f, keys) ==
    IF keys = {} THEN 0
    ELSE LET k == CHOOSE a \in keys : TRUE
         IN  f[k] + SumOver(f, keys \ {k})

\* C1: every entry (date, task, d) of the SlotMap that schedule returns has d > 0
\* and its date is an official workday of the calendar.
C1_SlotsPositiveOnWorkdays ==
    pc = "done" =>
        \A k \in DOMAIN slots : slots[k] > 0 /\ IsOfficialWorkday(calendar, k[1])

\* the total length of the Available windows that time_windows(now) yields for a date
AvailableOn(date) ==
    LET ws == TimeWindows(calendar, sched.arg)
        len == [i \in 1..Len(ws) |-> IF Available(ws[i]) /\ ws[i].date = date
                                     THEN ws[i].end - ws[i].start ELSE 0]
    IN  SumOver(len, 1..Len(ws))

\* the sum of the durations the returned SlotMap holds for a date
AllocatedOn(date) == SumOver(slots, {k \in DOMAIN slots : k[1] = date})

\* C2: for every date, the durations the returned SlotMap allocates on that date sum
\* to at most the total length of the Available windows time_windows(now) yields for it.
C2_DayAllocationWithinAvailable ==
    pc = "done" =>
        \A date \in {k[1] : k \in DOMAIN slots} : AllocatedOn(date) <= AvailableOn(date)

\* the times claim C3 names for a Blocked task: the resolved may_unblock_at of its
\* external blockers, and for each blocking task its completion time or
\* project_finish(earliest[blocker], remaining(blocker))
UnblockTimes(task) ==
    LET ext == {ResolveWithCalendar(task.status.externals[i], calendar,
                                    scheduler.working_time[1]) :
                   i \in 1..Len(task.status.externals)}
        blockers == {task.status.tasks[i] : i \in 1..Len(task.status.tasks)}
    IN  {r.at : r \in {e \in ext : e.some}}
        \cup {tasks[b].status.at : b \in {c \in blockers : IsCompleted(tasks[c])}}
        \cup {ProjectFinish(sched.earliest[b], Remaining(tasks[b]), calendar,
                            scheduler.work_tick, scheduler.buffer_time) :
                 b \in {c \in blockers : ~IsCompleted(tasks[c])}}

\* C3: every allocation to a Blocked task is made at a cursor at or after each
\* resolved external unblock time and each blocker's completion or projected finish.
C3_BlockedAllocatedAfterUnblock ==
    (Allocated /\ IsBlocked(tasks[sched.last.task])) =>
        \A t \in UnblockTimes(tasks[sched.last.task]) : sched.last.cursor >= t

\* a task blocked by a task that is not Completed has received an allocation
C3_Witness ==
    /\ Allocated
    /\ IsBlocked(tasks[sched.last.task])
    /\ \E i \in 1..Len(tasks[sched.last.task].status.tasks) :
          ~IsCompleted(tasks[tasks[sched.last.task].status.tasks[i]])

\* C4: at every allocation the chosen task t has earliest[t] <= cursor and
\* remaining_minutes[t] > 0 just before the allocation is applied.
C4_ChosenIsStartableAndUnfinished ==
    Allocated =>
        /\ sched.earliest[sched.last.task] <= sched.last.cursor
        /\ sched.last.remaining_before > 0

\* an allocation made later than the start of the pass, to a task that then still has work left
C4_Witness ==
    /\ pc = "loop"
    /\ Allocated
    /\ sched.last.cursor > sched.now
    /\ sched.remaining_minutes[sched.last.task] > 0

\* the tasks that block id and are not Completed
OpenBlockers(id) ==
    IF IsBlocked(tasks[id])
    THEN {b \in {tasks[id].status.tasks[i] : i \in 1..Len(tasks[id].status.tasks)} :
             ~IsCompleted(tasks[b])}
    ELSE {}

RECURSIVE BlockersClosure(_)
BlockersClosure(seen) ==
    LET more == seen \cup UNION {OpenBlockers(id) : id \in seen}
    IN  IF more = seen THEN seen ELSE BlockersClosure(more)

\* the blocked-by graph holds a cycle among tasks that are not Completed
Cyclic == \E id \in DOMAIN tasks : ~IsCompleted(tasks[id]) /\ id \in BlockersClosure(OpenBlockers(id))

\* C5: a pass over a task map whose blocked-by graph holds a cycle terminates:
\* none of the derived maps recurses without bound.
C5_CyclicPassTerminates == Cyclic => pc # "overflow"

\* every deadline and every may_unblock_at of the task map resolves with the calendar
AllResolve ==
    \A id \in DOMAIN tasks :
        /\ ResolveWithCalendar(tasks[id].deadline, calendar, scheduler.working_time[1]).ok
        /\ \A i \in 1..Len(tasks[id].status.externals) :
              ResolveWithCalendar(tasks[id].status.externals[i], calendar,
                                  scheduler.working_time[1]).ok

\* the calendar yields no Available window
NoAvailableWindow == AvailableWindows(TimeWindows(calendar, AndTime(0, 0))) = <<>>

\* C6: when the calendar yields no Available window, schedule returns an empty
\* SlotMap without failing, whatever the task set.
C6_NoWindowReturnsEmpty ==
    (NoAvailableWindow /\ AllResolve /\ ~Cyclic) =>
        /\ pc # "panicked"
        /\ pc = "done" => slots = NoSlots

\* some task's deadline is a Fuzzy BusinessDays(n) the calendar cannot satisfy
UnsatisfiableDeadline ==
    \E id \in DOMAIN tasks :
        /\ tasks[id].deadline.kind = "BusinessDays"
        /\ ~ResolveWithCalendar(tasks[id].deadline, calendar, scheduler.working_time[1]).ok

\* C7: schedule does not fail when a task's Fuzzy BusinessDays(n) deadline cannot
\* be satisfied by the calendar.
C7_UnsatisfiableDeadlineDoesNotFail ==
    (UnsatisfiableDeadline /\ ~NoAvailableWindow /\ ~Cyclic) => pc # "panicked"

\* the context as it was when the latest allocation was chosen
BeforeLast ==
    [sched EXCEPT !.cursor = sched.last.cursor,
                  !.remaining_minutes[sched.last.task] = sched.last.remaining_before]

\* the pair (urgency, weighted) of id when the latest allocation was chosen
ScoreBeforeLast(id) ==
    CalcPriorityScore(BeforeLast, id, sched.last.cursor,
                      CalcMaxSlackOn(BeforeLast, sched.last.cursor))

\* the tasks eligible when the latest allocation was chosen
EligibleBeforeLast ==
    {id \in DOMAIN tasks :
        BeforeLast.remaining_minutes[id] > 0 /\ BeforeLast.earliest[id] <= sched.last.cursor}

\* C21: at every allocation the chosen task is the eligible task (remaining > 0,
\* earliest <= cursor) whose pair (urgency, weighted) is lexicographically
\* greatest and, among the eligible tasks with an equal pair, the one with the
\* smallest TaskID; the choice is a function of the inputs of the pass.
C21_ChosenIsGreatestThenFirst ==
    Allocated =>
        /\ sched.last.task \in EligibleBeforeLast
        /\ \A id \in EligibleBeforeLast :
              /\ ~ScoreGreater(ScoreBeforeLast(id), ScoreBeforeLast(sched.last.task))
              /\ ~ScoreGreater(ScoreBeforeLast(sched.last.task), ScoreBeforeLast(id))
                    => sched.last.task <= id

\* an allocation chosen between two eligible tasks of equal pair
C21_Witness ==
    /\ Allocated
    /\ \E id \in EligibleBeforeLast :
          /\ id # sched.last.task
          /\ ~ScoreGreater(ScoreBeforeLast(sched.last.task), ScoreBeforeLast(id))

\* C27: every allocation lies inside the Available window being processed,
\* window.start <= cursor and cursor + alloc <= window.end, also after the
\* cursor has jumped forward inside the window.
C27_AllocationInsideWindow ==
    [][LoopAllocate =>
          /\ StartDatetime(CurrentWindow) <= sched'.last.cursor
          /\ sched'.last.cursor + sched'.last.alloc <= EndDatetime(CurrentWindow)]_vars

\* C28: in the earliest-start map of a pass started with `now` every task's
\* earliest start is >= now, and a task that is not Blocked has earliest start
\* equal to the `now` passed to schedule.
C28_EarliestFromNow ==
    Running =>
        \A id \in DOMAIN tasks :
            /\ sched.earliest[id] >= sched.arg
            /\ ~IsBlocked(tasks[id]) => sched.earliest[id] = sched.arg

\* C34: a pass never allocates a slot to a task whose status is Completed or
\* Dropped, whatever estimate, progress override and actual time it carries.
C34_NoAllocationToFinalTasks ==
    Allocated => ~IsCompleted(tasks[sched.last.task]) /\ ~IsDropped(tasks[sched.last.task])

\* C35: a task blocked by a task B that is not Completed receives no allocation
\* at a cursor earlier than the moment the allocation of B in the same pass is
\* complete (remaining_minutes of B has reached 0).
C35_BlockedWaitsForBlockerAllocation ==
    Allocated =>
        \A b \in OpenBlockers(sched.last.task) \ {sched.last.task} :
            sched.remaining_minutes[b] <= 0

\* C36: latest[B] <= latest[D] for every task D blocked by a task B, whether
\* or not B has a deadline of its own.
C36_LatestOrderedAlongBlocking ==
    Running =>
        \A d \in DOMAIN tasks : \A b \in BlockersOf(tasks, d) \cap DOMAIN tasks :
            sched.latest[b] <= sched.latest[d]

\* the sum of the durations the returned SlotMap holds for a task
AllocatedTo(id) == SumOver(slots, {k \in DOMAIN slots : k[2] = id})

\* C40: in the returned SlotMap the total allocated to a task is at most its
\* remaining time in whole minutes and a task whose remaining time is <= 0
\* receives nothing; each single allocation is at most work_tick.
C40_AllocationWithinRemaining ==
    /\ pc = "done" =>
          \A id \in DOMAIN tasks :
              AllocatedTo(id) <= Max(NumMinutes(Remaining(tasks[id])), 0) * Minute
    /\ Allocated => sched.last.alloc <= scheduler.work_tick

\* the starts of tasks that still lie ahead of the cursor: the jumps left
JumpsLeft(ctx) == Cardinality({ctx.earliest[id] : id \in DOMAIN ctx.earliest} \ (0..ctx.cursor))

\* a variant of the loops of schedule: windows left, then position, then jumps
\* left in the window, then capacity
Variant ==
    CASE pc = "windows" -> <<Len(sched.windows) + 1 - sched.widx, 1, 0, 0>>
      [] pc = "loop" -> <<Len(sched.windows) + 1 - sched.widx, 0, JumpsLeft(sched),
                          Max(sched.capacity, 0)>>
      [] OTHER -> <<0, 0, 0, 0>>

LexLess(a, b) ==
    \E i \in 1..Len(a) : a[i] < b[i] /\ \A j \in 1..(i - 1) : a[j] = b[j]

VariantDecreases ==
    /\ \A i \in 1..4 : Variant'[i] >= 0
    /\ LexLess(Variant', Variant)

\* C33: with an acyclic blocked-by graph schedule terminates: the context is
\* built without exhausting the stack, inside a window every iteration that
\* allocates strictly decreases capacity, every jump moves the cursor strictly
\* forward, and every step of the loops decreases a variant that is bounded
\* below, so that the call ends once the windows are consumed.
C33_ScheduleTerminates ==
    /\ [](Acyclic(tasks) => pc # "overflow")
    /\ [][LoopAllocate => sched'.capacity < sched.capacity]_vars
    /\ [][LoopJump => sched'.cursor > sched.cursor]_vars
    /\ [][(pc \in {"windows", "loop"}) => VariantDecreases]_vars

\* a pass over an acyclic graph has returned after a jump to the start of a
\* task blocked by an external and an allocation to it
C33_Witness ==
    /\ pc = "done"
    /\ Acyclic(tasks)
    /\ sched.last.task # 0
    /\ IsBlocked(tasks[sched.last.task])
    /\ sched.last.cursor = sched.earliest[sched.last.task]
    /\ sched.last.cursor > sched.now

----------------------------------------------------------------------------
(* Task operations: the transitions of task 1 of the map, called in any order *)

\* the id vectors of block_by_task: none, or one id
BlockArgs == {<<>>} \cup {<<id>> : id \in TaskIDs}
\* the may_unblock_at of an external blocking reason
ExternalArgs == {DeadlineUnknown, DeadlineExact(AndTime(0, 2 * Minute))}
\* the estimates of update_remaining: a single value, a three-point estimate
EstimateArgs == {EstimateNew(2 * Minute), EstimateFromMop(2 * Minute, Minute, 9 * Minute)}
\* the progress overrides of update_progress_task
ProgressArgs == {None, 0, 50, 100}

TheTask == tasks[1]

InitTask ==
    /\ calendar = CalendarNew(DefaultWorkingTime)
    /\ tasks = [id \in {1} |-> TaskNew(DeadlineUnknown)]
    /\ scheduler = DefaultScheduler
    /\ slots = NoSlots
    /\ pc = "idle"
    /\ sched = NoSched
    /\ fwd = NotCalled
    /\ rev = NotCalled
    /\ call = NoCall
    /\ log = NoLog
    /\ active_task = NoActive

\* the record of a call: the operation, whether it returned Ok, whether it
\* panicked, the Duration it returned
Returned(op, ok, panicked, result) ==
    [op |-> op, ok |-> ok, panicked |-> panicked, result |-> result]

CallBlockByTask ==
    \E task_ids \in BlockArgs :
        /\ tasks' = [tasks EXCEPT ![1] = TaskBlockByTask(@, task_ids)]
        /\ call' = Returned("block_by_task", TRUE, FALSE, 0)
        /\ UNCHANGED <<calendar, scheduler, slots, pc, sched, fwd, rev, log, active_task>>

CallBlockByExternal ==
    \E may_unblock_at \in ExternalArgs :
        /\ Len(TheTask.status.externals) < MaxExternals
        /\ tasks' = [tasks EXCEPT ![1] = TaskBlockByExternal(@, may_unblock_at)]
        /\ call' = Returned("block_by_external", TRUE, FALSE, 0)
        /\ UNCHANGED <<calendar, scheduler, slots, pc, sched, fwd, rev, log, active_task>>

CallUnblockTask ==
    \E task_id \in TaskIDs :
        /\ tasks' = [tasks EXCEPT ![1] = TaskUnblockTask(@, task_id)]
        /\ call' = Returned("unblock_task", TRUE, FALSE, 0)
        /\ UNCHANGED <<calendar, scheduler, slots, pc, sched, fwd, rev, log, active_task>>

CallUnblockExternal ==
    \E reason_index \in 0..MaxExternals :
        /\ tasks' = [tasks EXCEPT ![1] = TaskUnblockExternal(@, reason_index)]
        /\ call' = Returned("unblock_external", TRUE, FALSE, 0)
        /\ UNCHANGED <<calendar, scheduler, slots, pc, sched, fwd, rev, log, active_task>>

CallComplete ==
    /\ tasks' = [tasks EXCEPT ![1] = TaskComplete(@, AndTime(0, 0))]
    /\ call' = Returned("complete", TRUE, FALSE, 0)
    /\ UNCHANGED <<calendar, scheduler, slots, pc, sched, fwd, rev, log, active_task>>

CallDrop ==
    /\ tasks' = [tasks EXCEPT ![1] = TaskDrop(@)]
    /\ call' = Returned("drop", TRUE, FALSE, 0)
    /\ UNCHANGED <<calendar, scheduler, slots, pc, sched, fwd, rev, log, active_task>>

CallRecord ==
    /\ TheTask.actual_total < MaxActual * Minute
    /\ tasks' = [tasks EXCEPT ![1] = TaskRecord(@, Minute)]
    /\ call' = Returned("record", TRUE, FALSE, 0)
    /\ UNCHANGED <<calendar, scheduler, slots, pc, sched, fwd, rev, log, active_task>>

CallUpdateProgress ==
    \E progress \in ProgressArgs :
        /\ tasks' = [tasks EXCEPT ![1] = UpdateProgressTask(@, progress)]
        /\ call' = Returned("update_progress_task", TRUE, FALSE, 0)
        /\ UNCHANGED <<calendar, scheduler, slots, pc, sched, fwd, rev, log, active_task>>

CallUpdateRemaining ==
    \E estimated_remaining \in EstimateArgs :
        /\ tasks' = [tasks EXCEPT ![1] = TaskUpdateRemaining(@, estimated_remaining)]
        /\ call' = [est |-> estimated_remaining, progress_before |-> TheTask.progress]
                       @@ Returned("update_remaining", ~UpdateRemainingErr(TheTask), FALSE, 0)
        /\ UNCHANGED <<calendar, scheduler, slots, pc, sched, fwd, rev, log, active_task>>

CallRemaining ==
    /\ call' = IF RemainingPanics(TheTask)
               THEN Returned("remaining", FALSE, TRUE, 0)
               ELSE Returned("remaining", TRUE, FALSE, Remaining(TheTask))
    /\ UNCHANGED <<calendar, tasks, scheduler, slots, pc, sched, fwd, rev, log, active_task>>

NextTask ==
    \/ CallBlockByTask
    \/ CallBlockByExternal
    \/ CallUnblockTask
    \/ CallUnblockExternal
    \/ CallComplete
    \/ CallDrop
    \/ CallRecord
    \/ CallUpdateProgress
    \/ CallUpdateRemaining
    \/ CallRemaining

SpecTask == InitTask /\ [][NextTask]_vars

\* C14: after any sequence of block_by_task, block_by_external, unblock_task
\* and unblock_external calls a Blocked task has a task blocker or an external
\* blocker: with both lists empty the status is Ready.
C14_BlockedHasBlocker ==
    IsBlocked(TheTask) =>
        (TheTask.status.tasks # <<>> \/ TheTask.status.externals # <<>>)

\* C15: block_by_task and block_by_external leave the status of a Completed or
\* Dropped task unchanged.
C15_BlockKeepsFinalStatus ==
    [][(/\ call'.op \in {"block_by_task", "block_by_external"}
        /\ (IsCompleted(TheTask) \/ IsDropped(TheTask)))
          => tasks'[1].status = TheTask.status]_vars

\* C16: update_remaining on a Completed or Dropped task returns an error and
\* leaves estimate, progress override, status and actual_total unchanged; on a
\* Ready or Blocked task it succeeds.
C16_UpdateRemainingRejectsFinal ==
    [][call'.op = "update_remaining" =>
          IF IsCompleted(TheTask) \/ IsDropped(TheTask)
          THEN ~call'.ok /\ tasks'[1] = TheTask
          ELSE call'.ok /\ HasEstimate(tasks'[1]) /\ tasks'[1].progress = None]_vars

\* update_remaining has returned an error on a task that is Completed with an
\* estimate and its progress override
C16_Witness ==
    /\ call.op = "update_remaining"
    /\ ~call.ok
    /\ IsCompleted(TheTask)
    /\ HasEstimate(TheTask)
    /\ TheTask.progress = 100

\* the remaining time as the five ordered cases define it; the second case
\* divides by the progress override
RemainingByCases(task) ==
    CASE HasEstimate(task) /\ task.progress # None /\ task.actual_total = 0 ->
            DivTrunc(EstimateMean(task) * (100 - task.progress), 100)
      [] task.progress # None ->
            IF task.progress = 0 THEN None
            ELSE DivTrunc(task.actual_total, task.progress) * (100 - task.progress)
      [] HasEstimate(task) -> EstimateMean(task) - task.actual_total
      [] IsCompleted(task) \/ IsDropped(task) -> 0
      [] OTHER -> 5 * Minute

\* C17: Task::remaining returns the value of the five ordered cases for every
\* combination of estimate, progress override, actual total and status.
C17_RemainingFollowsCases ==
    call.op = "remaining" =>
        (~call.panicked /\ call.result = RemainingByCases(TheTask))

\* C18: a new task (Ready, no estimate, no progress override, no recorded
\* time) has remaining() of zero.
C18_NewTaskRemainingZero ==
    (/\ call.op = "remaining"
     /\ IsReady(TheTask)
     /\ ~HasEstimate(TheTask)
     /\ TheTask.progress = None
     /\ TheTask.actual_total = 0) => (~call.panicked /\ call.result = 0)

----------------------------------------------------------------------------
(* The projections: project_start_before(T, R) and then project_finish from  *)
(* the start it returns, with the work_tick and buffer of the scheduler      *)

\* Scheduler { work_tick, buffer_time }: a tick of one or two minutes, with
\* or without a buffer of a minute
ProjectionSchedulers ==
    { [work_tick |-> tick * Minute, buffer_time |-> buffer * Minute,
       working_time |-> DefaultWorkingTime] : tick \in 1..2, buffer \in 0..1 }

\* the remaining work of the projected task: whole minutes up to half a day
RemainingArgs == {m * Minute : m \in 1..(DayLen \div 2)}

InitProjection ==
    /\ calendar \in ScheduleCalendars
    /\ tasks = NoTasks
    /\ scheduler \in ProjectionSchedulers
    /\ slots = NoSlots
    /\ pc = "idle"
    /\ sched = NoSched
    /\ fwd = NotCalled
    /\ rev = NotCalled
    /\ call = NoCall
    /\ log = NoLog
    /\ active_task = NoActive

\* the record of a projection: the finish asked for, the remaining work, the
\* start project_start_before returned, the DateTime the call returned
Projected(op, finish, remaining, start, result) ==
    [op |-> op, finish |-> finish, remaining |-> remaining, start |-> start,
     result |-> result]

CallProjectStartBefore ==
    \E finish \in DateTimes, remaining \in RemainingArgs :
        \E start \in {ProjectStartBefore(finish, remaining, calendar,
                                          scheduler.work_tick, scheduler.buffer_time)} :
            /\ call' = Projected("project_start_before", finish, remaining, start, start)
            /\ UNCHANGED <<calendar, tasks, scheduler, slots, pc, sched, fwd, rev, log, active_task>>

CallProjectFinish ==
    /\ call.op = "project_start_before"
    /\ call' = Projected("project_finish", call.finish, call.remaining, call.start,
                         ProjectFinish(call.start, call.remaining, calendar,
                                       scheduler.work_tick, scheduler.buffer_time))
    /\ UNCHANGED <<calendar, tasks, scheduler, slots, pc, sched, fwd, rev, log, active_task>>

\* project_finish from any start, with remaining work or none
CallProjectFinishFrom ==
    \E start \in DateTimes, remaining \in RemainingArgs \cup {0} :
        /\ call' = Projected("project_finish_from", None, remaining, start,
                             ProjectFinish(start, remaining, calendar,
                                           scheduler.work_tick, scheduler.buffer_time))
        /\ UNCHANGED <<calendar, tasks, scheduler, slots, pc, sched, fwd, rev, log, active_task>>

NextProjection == CallProjectStartBefore \/ CallProjectFinish \/ CallProjectFinishFrom

SpecProjection == InitProjection /\ [][NextProjection]_vars

\* the reverse walk of project_start_before places all of the remaining work
\* inside the windows ws[i..], buffers included
RECURSIVE PlacedBefore(_, _, _, _, _, _)
PlacedBefore(ws, i, cursor, remaining, work_tick, buffer) ==
    IF i > Len(ws) THEN FALSE
    ELSE \E after \in {StartWindow(Min(EndDatetime(ws[i]), cursor), StartDatetime(ws[i]),
                                    remaining, work_tick, buffer)} :
            \/ after.remaining <= 0
            \/ PlacedBefore(ws, i + 1, StartDatetime(ws[i]), after.remaining, work_tick, buffer)

\* the work of the last projection fits in the Available windows before its
\* finish time T, and T is the end of the Available time before it
FitsBefore ==
    \E ws \in {AvailableWindows(TimeWindowsRev(calendar, call.finish))} :
        /\ ws # <<>>
        /\ EndDatetime(ws[1]) = call.finish
        /\ PlacedBefore(ws, 1, call.finish, call.remaining,
                        scheduler.work_tick, scheduler.buffer_time)

\* C19: for every calendar, finish time T and remaining R > 0 such that the
\* work fits in the Available windows before T,
\* project_finish(project_start_before(T, R), R) = T with the same work_tick
\* and buffer.  Stated for the T a task can finish at (T inside or at the end
\* of an Available window) and for work the reverse walk places whole.
C19_ProjectionRoundTrip ==
    (call.op = "project_finish" /\ FitsBefore) => call.result = call.finish

\* C37: project_finish(start, R) is never earlier than start + R, both when
\* R is 0 and when the Available time of the calendar runs out before R is
\* consumed.
C37_FinishNotBeforeStartPlusRemaining ==
    call.op = "project_finish_from" => call.result >= call.start + call.remaining

----------------------------------------------------------------------------
(* Estimates: the sum of two estimates and its mean *)

\* estimates with whole-minute components: Estimate::new of a duration that
\* may be zero or negative, Estimate::from_mop of the triples it accepts
EstimateInputs ==
    {EstimateNew(m * Minute) : m \in (-1)..MaxEstimate}
        \cup {EstimateFromMop(mop[1] * Minute, mop[2] * Minute, mop[3] * Minute) :
                 mop \in {t \in (0..MaxEstimate) \X (0..MaxEstimate) \X (0..MaxEstimate) :
                             FromMopOk(t[1] * Minute, t[2] * Minute, t[3] * Minute)}}

InitEstimate ==
    /\ calendar = CalendarNew(DefaultWorkingTime)
    /\ tasks = NoTasks
    /\ scheduler = DefaultScheduler
    /\ slots = NoSlots
    /\ pc = "idle"
    /\ sched = NoSched
    /\ fwd = NotCalled
    /\ rev = NotCalled
    /\ call = NoCall
    /\ log = NoLog
    /\ active_task = NoActive

\* a + b
CallEstimateAdd ==
    \E a \in EstimateInputs, b \in EstimateInputs :
        /\ call' = [op |-> "add", a |-> a, b |-> b, sum |-> EstimateAdd(a, b), result |-> 0]
        /\ UNCHANGED <<calendar, tasks, scheduler, slots, pc, sched, fwd, rev, log, active_task>>

\* (a + b).mean()
CallEstimateMean ==
    /\ call.op = "add"
    /\ call' = [call EXCEPT !.op = "mean", !.result = Mean(call.sum)]
    /\ UNCHANGED <<calendar, tasks, scheduler, slots, pc, sched, fwd, rev, log, active_task>>

NextEstimate == CallEstimateAdd \/ CallEstimateMean

SpecEstimate == InitEstimate /\ [][NextEstimate]_vars

\* C20: for all estimates a and b with whole-minute components,
\* (a + b).mean() = a.mean() + b.mean().
C20_MeanAdditive ==
    call.op = "mean" => call.result = Mean(call.a) + Mean(call.b)

\* the mean of a sum of two three-point estimates whose means are not whole
\* minutes
C20_Witness ==
    /\ call.op = "mean"
    /\ call.a.optimistic < call.a.pessimistic
    /\ call.b.optimistic < call.b.pessimistic
    /\ Mean(call.a) % Minute # 0
    /\ Mean(call.b) % Minute # 0

\* C39: in every task state reachable through update_remaining, record,
\* progress overrides in [0,100], block/unblock, complete and drop, remaining()
\* returns a value without failing, and the value is >= 0.
C39_RemainingTotalAndNonNegative ==
    call.op = "remaining" => (~call.panicked /\ call.ok /\ call.result >= 0)

----------------------------------------------------------------------------
(* Fuzzy deadlines: resolve and resolve_with_calendar of a deadline built    *)
(* from a reference date of the first week                                  *)

FuzzyKinds == {"BusinessDays", "FridayOfWeeks", "Weeks", "MonthEnds", "Months"}

\* FuzzyDeadline::new(reference_date, kind(n), time): a reference at midnight
\* of any day of the first week, n up to one more than the calendar has dates
FuzzyInputs ==
    { DeadlineFuzzy(kind, AndTime(base, 0), n, time) :
        kind \in FuzzyKinds, base \in 0..(MaxDate + 5), n \in 0..(MaxDate + 1),
        time \in {None, 2 * Minute} }

\* the default_deadline_time argument
DefaultTimeArgs == {0, 3 * Minute}

InitDeadline ==
    /\ calendar \in {CalWithDays(CalendarNew(DefaultWorkingTime), Dates, official) :
                        official \in SUBSET Dates}
    /\ tasks = NoTasks
    /\ scheduler = DefaultScheduler
    /\ slots = NoSlots
    /\ pc = "idle"
    /\ sched = NoSched
    /\ fwd = NotCalled
    /\ rev = NotCalled
    /\ call = NoCall
    /\ log = NoLog
    /\ active_task = NoActive

CallResolve ==
    \E dl \in FuzzyInputs, default_deadline_time \in DefaultTimeArgs :
        /\ call = NoCall
        /\ call' = [op |-> "resolve", deadline |-> dl, default |-> default_deadline_time,
                    ok |-> TRUE, at |-> FuzzyResolve(dl, default_deadline_time)]
        /\ UNCHANGED <<calendar, tasks, scheduler, slots, pc, sched, fwd, rev, log, active_task>>

CallResolveWithCalendar ==
    \E dl \in FuzzyInputs, default_deadline_time \in DefaultTimeArgs :
        \E r \in {FuzzyResolveWithCalendar(dl, calendar, default_deadline_time)} :
            /\ call = NoCall
            /\ call' = [op |-> "resolve_with_calendar", deadline |-> dl,
                        default |-> default_deadline_time, ok |-> r.ok, at |-> r.at]
            /\ UNCHANGED <<calendar, tasks, scheduler, slots, pc, sched, fwd, rev, log, active_task>>

NextDeadline == CallResolve \/ CallResolveWithCalendar

SpecDeadline == InitDeadline /\ [][NextDeadline]_vars

\* the date of the reference of the last call
BaseDate == DateOf(call.deadline.reference_date)

\* the official workdays at or after the reference date of the last call
OfficialFromBase == {d \in calendar.official_days : d >= BaseDate}

\* C22: resolve_with_calendar of BusinessDays(n) selects the official workday of
\* 0-based index n among the official workdays at or after the reference date
\* and returns an error exactly when fewer than n + 1 of them exist; for the
\* other kinds it never returns an error.
C22_BusinessDaysIndexOrError ==
    call.op = "resolve_with_calendar" =>
        IF call.deadline.kind = "BusinessDays"
        THEN /\ call.ok <=> Cardinality(OfficialFromBase) >= call.deadline.n + 1
             /\ call.ok =>
                   /\ DateOf(call.at) \in OfficialFromBase
                   /\ Cardinality({d \in OfficialFromBase : d < DateOf(call.at)})
                          = call.deadline.n
        ELSE call.ok

\* BusinessDays(n) with n > 0 resolved on a calendar that has the workday
C22_Witness ==
    /\ call.op = "resolve_with_calendar"
    /\ call.deadline.kind = "BusinessDays"
    /\ call.deadline.n > 0
    /\ call.ok
    /\ BaseDate \in calendar.official_days

\* C23: whenever resolve_with_calendar succeeds the date of the result is an
\* official workday: the raw resolved date if that is official, otherwise the
\* greatest official workday strictly before it.
C23_ResultIsOfficialWorkday ==
    (call.op = "resolve_with_calendar" /\ call.ok) =>
        /\ IsOfficialWorkday(calendar, DateOf(call.at))
        /\ call.deadline.kind # "BusinessDays" =>
              \E raw \in {DateOf(FuzzyResolve(call.deadline, call.default))} :
                  IF IsOfficialWorkday(calendar, raw) THEN DateOf(call.at) = raw
                  ELSE /\ DateOf(call.at) < raw
                       /\ \A d \in calendar.official_days : d < raw => d <= DateOf(call.at)

----------------------------------------------------------------------------
(* Dependents map over blocked-by graphs *)

GraphSize == 3
GraphIds == 1..GraphSize

\* a task of the graph: Ready, or Blocked by a non-empty set of tasks
GraphTask(blockers) ==
    IF blockers = {} THEN TaskNew(DeadlineNone)
    ELSE TaskBlockByTask(TaskNew(DeadlineNone), DatesAscending(blockers))

InitDependents ==
    /\ calendar = CalendarNew(DefaultWorkingTime)
    /\ tasks \in { [id \in GraphIds |-> GraphTask(g[id])] : g \in [GraphIds -> SUBSET GraphIds] }
    /\ scheduler = DefaultScheduler
    /\ slots = NoSlots
    /\ pc = "idle"
    /\ sched = NoSched
    /\ fwd = NotCalled
    /\ rev = NotCalled
    /\ call = NoCall
    /\ log = NoLog
    /\ active_task = NoActive

CallBuildRevGraph ==
    /\ call = NoCall
    /\ call' = [op |-> "build_rev_graph", rev_graph |-> BuildRevGraph(tasks)]
    /\ UNCHANGED <<calendar, tasks, scheduler, slots, pc, sched, fwd, rev, log, active_task>>

CallComputeDependentsMap ==
    /\ call.op = "build_rev_graph"
    /\ call' = [op |-> "compute_dependents_map", rev_graph |-> call.rev_graph,
                counts |-> ComputeDependentsMap(tasks, call.rev_graph)]
    /\ UNCHANGED <<calendar, tasks, scheduler, slots, pc, sched, fwd, rev, log, active_task>>

NextDependents == CallBuildRevGraph \/ CallComputeDependentsMap

SpecDependents == InitDependents /\ [][NextDependents]_vars

\* C25: on an acyclic blocked-by graph compute_dependents_map gives every task
\* the number of distinct tasks reachable from it through rev_graph, a task
\* reachable along several paths counted once.
C25_CountsTransitiveDependents ==
    (call.op = "compute_dependents_map" /\ Acyclic(tasks)) =>
        \A id \in DOMAIN tasks :
            call.counts[id] = Cardinality(TransitiveDependents(tasks, id))

\* an acyclic graph in which a task is reached along two paths
C25_Witness ==
    /\ call.op = "compute_dependents_map"
    /\ Acyclic(tasks)
    /\ \E a, b, c \in DOMAIN tasks :
          /\ b \in DirectDependents(tasks, a)
          /\ c \in DirectDependents(tasks, a)
          /\ c \in DirectDependents(tasks, b)
          /\ call.counts[a] = 2

\* the graph without the edge from id to itself
WithoutSelfEdge(tks, id) == [tks EXCEPT ![id] = GraphTask(BlockersOf(tks, id) \ {id})]

\* C29: a task blocked by itself gets the dependents count it gets in the same
\* graph with the self-edge removed.
C29_SelfLoopCountsNothing ==
    call.op = "compute_dependents_map" =>
        \A id \in DOMAIN tasks :
            id \in BlockersOf(tasks, id) =>
                \E without \in {WithoutSelfEdge(tasks, id)} :
                    call.counts[id] = ComputeDependentsMap(without, BuildRevGraph(without))[id]

----------------------------------------------------------------------------
(* SlotMap *)

MaxSlotCalls == 3
MaxSlotDuration == 2
SlotKeys == Dates \X (1..NumTasks)
SlotDurations == 1..MaxSlotDuration

\* call.ledger keeps, for every entry ever added, the adds minus the consumes
\* since the entry was last absent
InitSlots ==
    /\ calendar = CalendarNew(DefaultWorkingTime)
    /\ tasks = [id \in 1..NumTasks |-> TaskNew(DeadlineNone)]
    /\ scheduler = DefaultScheduler
    /\ slots = NoSlots
    /\ pc = "idle"
    /\ sched = NoSched
    /\ fwd = NotCalled
    /\ rev = NotCalled
    /\ call = [op |-> "new", calls |-> 0, ledger |-> EmptyMap]
    /\ log = NoLog
    /\ active_task = NoActive

CallSlotAdd ==
    /\ call.op # "remaining_at"
    /\ call.calls < MaxSlotCalls
    /\ \E key \in SlotKeys, duration \in SlotDurations :
          /\ slots' = SlotAdd(slots, key[1], key[2], duration)
          /\ call' = [op |-> "add", calls |-> call.calls + 1,
                      ledger |-> Put(call.ledger, key,
                                     IF SlotRemainingAt(slots, key[1], key[2]) = None
                                     THEN duration ELSE call.ledger[key] + duration)]
    /\ UNCHANGED <<calendar, tasks, scheduler, pc, sched, fwd, rev, log, active_task>>

CallSlotConsume ==
    /\ call.op # "remaining_at"
    /\ call.calls < MaxSlotCalls
    /\ \E key \in SlotKeys, duration \in SlotDurations :
          /\ slots' = SlotConsume(slots, key[1], key[2], duration)
          /\ call' = [op |-> "consume", calls |-> call.calls + 1,
                      ledger |-> IF SlotRemainingAt(slots, key[1], key[2]) = None
                                 THEN call.ledger
                                 ELSE Put(call.ledger, key, call.ledger[key] - duration)]
    /\ UNCHANGED <<calendar, tasks, scheduler, pc, sched, fwd, rev, log, active_task>>

CallSlotRemainingAt ==
    /\ call.op # "remaining_at"
    /\ \E key \in SlotKeys :
          call' = [op |-> "remaining_at", calls |-> call.calls, ledger |-> call.ledger,
                   key |-> key, result |-> SlotRemainingAt(slots, key[1], key[2])]
    /\ UNCHANGED <<calendar, tasks, scheduler, slots, pc, sched, fwd, rev, log, active_task>>

NextSlots == CallSlotAdd \/ CallSlotConsume \/ CallSlotRemainingAt

SpecSlots == InitSlots /\ [][NextSlots]_vars

\* C26: every stored (date, task) entry has a duration > 0 equal to the adds
\* minus the consumes since the entry was last absent, and remaining_at returns
\* none for an entry whose balance reached <= 0.
C26_EntriesArePositiveBalances ==
    /\ \A key \in DOMAIN slots :
          /\ slots[key] > 0
          /\ key \in DOMAIN call.ledger
          /\ slots[key] = call.ledger[key]
    /\ call.op = "remaining_at" =>
          /\ (call.key \in DOMAIN call.ledger /\ call.ledger[call.key] <= 0)
                => call.result = None
          /\ call.result # None => call.result = call.ledger[call.key]

\* an entry consumed down to a balance below zero, asked for afterwards
C26_Witness ==
    /\ call.op = "remaining_at"
    /\ call.key \in DOMAIN call.ledger
    /\ call.ledger[call.key] < 0
    /\ call.result = None
    /\ \E other \in DOMAIN slots : other # call.key

----------------------------------------------------------------------------
(* The budget of a pass: one task that is Ready from the start, in one       *)
(* Available window, under the scheduler of the model or of Session::new     *)

MaxBudget == 7

\* Session::new: work_tick 25 min, buffer 5 min, working time 08:45 to 19:00
SessionScheduler ==
    [work_tick |-> 25 * Minute, buffer_time |-> 5 * Minute,
     working_time |-> <<(8 * 60 + 45) * Minute, 19 * 60 * Minute>>]

BudgetTasks ==
    {TaskNew(DeadlineNone)} \cup {Estimated(TaskNew(DeadlineNone), m) : m \in 1..MaxBudget}
BudgetWindows == {4 * Minute, 30 * Minute, 60 * Minute}

InitBudget ==
    /\ calendar = CalendarNew(DefaultWorkingTime)
    /\ tasks \in [{1} -> BudgetTasks]
    /\ scheduler \in {DefaultScheduler, SessionScheduler}
    /\ slots = NoSlots
    /\ pc = "idle"
    /\ sched = NoSched
    /\ fwd = NotCalled
    /\ rev = NotCalled
    /\ call = NoCall
    /\ log = NoLog
    /\ active_task = NoActive

\* build: remaining_minutes from need; then the first Available window
BudgetStart ==
    /\ pc = "idle"
    /\ \E length \in BudgetWindows :
          sched' = [remaining_minutes |->
                        [id \in DOMAIN tasks |->
                            RemainingMinutes(tasks[id],
                                NumMinutes(scheduler.working_time[2] - scheduler.working_time[1]))],
                    slots |-> EmptyMap, cursor |-> 0, capacity |-> length, last |-> NoAlloc]
    /\ pc' = "loop"
    /\ UNCHANGED <<calendar, tasks, scheduler, slots, fwd, rev, call, log, active_task>>

\* an iteration of the while loop: the task is the only candidate
BudgetAllocate ==
    /\ pc = "loop"
    /\ sched.capacity > 0
    /\ sched.remaining_minutes[1] > 0
    /\ sched' = Allocate(sched, 1, scheduler.work_tick, scheduler.buffer_time)
    /\ UNCHANGED <<calendar, tasks, scheduler, slots, pc, fwd, rev, call, log, active_task>>

\* the loop ends and the SlotMap is returned
BudgetReturn ==
    /\ pc = "loop"
    /\ sched.capacity <= 0 \/ sched.remaining_minutes[1] <= 0
    /\ slots' = sched.slots
    /\ pc' = "done"
    /\ UNCHANGED <<calendar, tasks, scheduler, sched, fwd, rev, call, log, active_task>>

NextBudget == BudgetStart \/ BudgetAllocate \/ BudgetReturn

SpecBudget == InitBudget /\ [][NextBudget]_vars

----------------------------------------------------------------------------
(* Session: start_task_at, complete_task and stop_current_task on a session  *)
(* of NumTasks estimated tasks, with or without a slot from an earlier pass  *)

MaxSessionCalls == 3

\* the part of a Session these operations read and write
SessionOf(tks, slot_map, lg, active) ==
    [tasks |-> tks, slots |-> slot_map, log |-> lg, active_task |-> active]

\* WorkLog::add_item(date, task_id, begin_at, duration)
WorkLogAddItem(lg, date, task_id, begin_at, duration) ==
    Append(lg, [date |-> date, task_id |-> task_id, begin_at |-> begin_at,
                duration |-> duration])

\* Session::start_task_at(task_id, start_at): the session and the Duration returned
StartTaskAt(session, task_id, start_at, work_tick) ==
    [session |-> [session EXCEPT !.active_task = <<task_id, start_at>>],
     panicked |-> /\ SlotRemainingAt(session.slots, DateOf(start_at), task_id) = None
                  /\ RemainingPanics(session.tasks[task_id]),
     result |-> IF SlotRemainingAt(session.slots, DateOf(start_at), task_id) # None
                THEN Min(SlotRemainingAt(session.slots, DateOf(start_at), task_id), work_tick)
                ELSE IF RemainingPanics(session.tasks[task_id]) THEN 0
                ELSE Min(Remaining(session.tasks[task_id]), work_tick)]

\* Session::complete_task(task_id, completed_at, duration)
CompleteTask(session, task_id, completed_at, duration) ==
    [session EXCEPT
        !.tasks[task_id] = TaskComplete(IF duration # None THEN TaskRecord(@, duration) ELSE @,
                                        completed_at),
        !.active_task = NoActive]

\* StopKind::Immediately(now), EndsAt(end_time), EndsIn(duration)
StopImmediately(now) == [kind |-> "Immediately", at |-> now, duration |-> 0]
StopEndsAt(end_time) == [kind |-> "EndsAt", at |-> end_time, duration |-> 0]
StopEndsIn(duration) == [kind |-> "EndsIn", at |-> None, duration |-> duration]

\* the `bail!`s of stop_current_task
StopErr(session, kind) ==
    \/ session.active_task = NoActive
    \/ /\ kind.kind = "EndsAt"
       /\ DateOf(session.active_task[2]) # DateOf(kind.at)

\* assert!(end_time >= start_at)
StopPanics(session, kind) ==
    /\ ~StopErr(session, kind)
    /\ kind.kind = "EndsAt"
    /\ kind.at < session.active_task[2]

\* the duration that stop_current_task records
StopDuration(session, kind) ==
    IF kind.kind = "EndsAt" THEN kind.at - session.active_task[2] ELSE kind.duration

\* the time a stopped task is completed at
StopEnd(session, kind) ==
    IF kind.kind = "EndsIn" THEN session.active_task[2] + kind.duration ELSE kind.at

\* a stop that records the time on the task and in the slots but not in the log
StopAppliedUnlogged(session, kind, complete) ==
    LET task_id == session.active_task[1]
        start_at == session.active_task[2]
        duration == StopDuration(session, kind)
        recorded == IF kind.kind = "Immediately" THEN session.tasks[task_id]
                    ELSE TaskRecord(session.tasks[task_id], duration)
    IN  [tasks |-> [session.tasks EXCEPT ![task_id] =
                        IF complete THEN TaskComplete(recorded, StopEnd(session, kind))
                        ELSE recorded],
         slots |-> IF kind.kind = "Immediately" THEN session.slots
                   ELSE SlotConsume(session.slots, DateOf(start_at), task_id, duration),
         log |-> session.log,
         active_task |-> NoActive]

\* stop_current_task past its checks: the match on kind and `active_task = NoActive`
StopApplied(session, kind, complete) ==
    LET task_id == session.active_task[1]
        start_at == session.active_task[2]
        duration == StopDuration(session, kind)
        recorded == IF kind.kind = "Immediately" THEN session.tasks[task_id]
                    ELSE TaskRecord(session.tasks[task_id], duration)
    IN  [tasks |-> [session.tasks EXCEPT ![task_id] =
                        IF complete THEN TaskComplete(recorded, StopEnd(session, kind))
                        ELSE recorded],
         slots |-> IF kind.kind = "Immediately" THEN session.slots
                   ELSE SlotConsume(session.slots, DateOf(start_at), task_id, duration),
         log |-> IF kind.kind = "Immediately" THEN session.log
                 ELSE WorkLogAddItem(session.log, DateOf(start_at), task_id,
                                     TimeOf(start_at), duration),
         active_task |-> NoActive]

\* a stop that takes the active task out of the session before its checks
StopCurrentTaskTaking(session, kind, complete) ==
    IF StopErr(session, kind)
    THEN [session |-> [session EXCEPT !.active_task = NoActive], ok |-> FALSE, panicked |-> FALSE]
    ELSE IF StopPanics(session, kind)
    THEN [session |-> session, ok |-> FALSE, panicked |-> TRUE]
    ELSE [session |-> StopApplied(session, kind, complete), ok |-> TRUE, panicked |-> FALSE]

\* Session::stop_current_task(kind, complete)
StopCurrentTask(session, kind, complete) ==
    IF StopErr(session, kind)
    THEN [session |-> session, ok |-> FALSE, panicked |-> FALSE]
    ELSE IF StopPanics(session, kind)
    THEN [session |-> session, ok |-> FALSE, panicked |-> TRUE]
    ELSE [session |-> StopApplied(session, kind, complete), ok |-> TRUE, panicked |-> FALSE]

SessionStarts == {AndTime(0, Minute), AndTime(MaxDate, 2 * Minute)}
SessionDurations == {Minute, 3 * Minute}
StopKinds ==
    {StopImmediately(AndTime(0, 3 * Minute))}
    \cup {StopEndsAt(end_time) :
             end_time \in {AndTime(0, 0), AndTime(0, 2 * Minute), AndTime(MaxDate, 3 * Minute)}}
    \cup {StopEndsIn(duration) : duration \in SessionDurations}

TheSession == SessionOf(tasks, slots, log, active_task)

InitSession ==
    /\ calendar = CalendarNew(DefaultWorkingTime)
    /\ tasks = [id \in TaskIDs |-> Estimated(TaskNew(DeadlineNone), 2)]
    /\ scheduler = DefaultScheduler
    /\ slots \in {NoSlots, SlotAdd(NoSlots, 0, 1, 2 * Minute)}
    /\ pc = "idle"
    /\ sched = NoSched
    /\ fwd = NotCalled
    /\ rev = NotCalled
    /\ call = [op |-> "new", calls |-> 0]
    /\ log = NoLog
    /\ active_task = NoActive

\* the session after a call, and the record of the call
SessionBecomes(session, record) ==
    /\ tasks' = session.tasks
    /\ slots' = session.slots
    /\ log' = session.log
    /\ active_task' = session.active_task
    /\ call' = record @@ [calls |-> call.calls + 1]
    /\ UNCHANGED <<calendar, scheduler, sched, fwd, rev>>

SessionCallable == pc = "idle" /\ call.calls < MaxSessionCalls

CallStartTaskAt ==
    /\ SessionCallable
    /\ \E task_id \in TaskIDs, start_at \in SessionStarts :
          \E r \in {StartTaskAt(TheSession, task_id, start_at, scheduler.work_tick)} :
              /\ SessionBecomes(r.session,
                                [op |-> "start_task_at", ok |-> ~r.panicked,
                                 task_id |-> task_id, result |-> r.result])
              /\ pc' = IF r.panicked THEN "panicked" ELSE pc

CallCompleteTask ==
    /\ SessionCallable
    /\ \E task_id \in TaskIDs, duration \in {None, Minute} :
          SessionBecomes(CompleteTask(TheSession, task_id, AndTime(0, 3 * Minute), duration),
                         [op |-> "complete_task", ok |-> TRUE, task_id |-> task_id,
                          duration |-> duration])
    /\ UNCHANGED pc

CallStopCurrentTask ==
    /\ SessionCallable
    /\ \E kind \in StopKinds, complete \in BOOLEAN :
          \E r \in {StopCurrentTask(TheSession, kind, complete)} :
              /\ SessionBecomes(r.session,
                                [op |-> "stop_current_task", ok |-> r.ok, kind |-> kind,
                                 complete |-> complete])
              /\ pc' = IF r.panicked THEN "panicked" ELSE pc

NextSession == CallStartTaskAt \/ CallCompleteTask \/ CallStopCurrentTask

SpecSession == InitSession /\ [][NextSession]_vars

SessionUnchanged ==
    /\ tasks' = tasks
    /\ log' = log
    /\ slots' = slots
    /\ active_task' = active_task

\* a stop is called without an active task, or with EndsAt on another date
\* than the start
StopRejectedCase ==
    /\ call'.op = "stop_current_task"
    /\ \/ active_task = NoActive
       \/ /\ call'.kind.kind = "EndsAt"
          /\ DateOf(active_task[2]) # DateOf(call'.kind.at)

\* C31: stop_current_task returns an error and leaves tasks, work log, slots
\* and active_task unchanged when there is no active task, and when the stop
\* kind is EndsAt with an end time on another date than the start (the active
\* task stays active).
C31_RejectedStopChangesNothing ==
    [][StopRejectedCase => (~call'.ok /\ pc' = "idle" /\ SessionUnchanged)]_vars

\* a stop with EndsAt on another date was rejected while a task was active
\* and the session held a slot
C31_Witness ==
    /\ call.op = "stop_current_task"
    /\ ~call.ok
    /\ pc = "idle"
    /\ active_task # NoActive
    /\ call.kind.kind = "EndsAt"
    /\ DateOf(active_task[2]) # DateOf(call.kind.at)
    /\ slots # NoSlots

\* the slots after a stop that recorded `duration` for the active task
SlotsReduced(duration) ==
    LET key == <<DateOf(active_task[2]), active_task[1]>>
    IN  /\ \A k \in (DOMAIN slots) \ {key} : k \in DOMAIN slots' /\ slots'[k] = slots[k]
        /\ (DOMAIN slots') \subseteq (DOMAIN slots)
        /\ key \in DOMAIN slots =>
              IF slots[key] - duration <= 0 THEN key \notin DOMAIN slots'
              ELSE key \in DOMAIN slots' /\ slots'[key] = slots[key] - duration

\* a successful stop that records `duration`: EndsIn(d), or EndsAt(s + d)
StopRecords(duration) ==
    /\ active_task' = NoActive
    /\ tasks'[active_task[1]].actual_total = tasks[active_task[1]].actual_total + duration
    /\ \A id \in (DOMAIN tasks) \ {active_task[1]} : tasks'[id] = tasks[id]
    /\ log' = Append(log, [date |-> DateOf(active_task[2]), task_id |-> active_task[1],
                           begin_at |-> TimeOf(active_task[2]), duration |-> duration])
    /\ SlotsReduced(duration)

\* a successful stop with Immediately, as the claim states it: only
\* active_task changes, and the status of the task if complete
StopImmediatelyStatusOnly ==
    /\ active_task' = NoActive
    /\ log' = log
    /\ slots' = slots
    /\ tasks' = IF call'.complete
                THEN [tasks EXCEPT ![active_task[1]].status = StatusCompleted(call'.kind.at)]
                ELSE tasks

\* the same, with what Task::complete does: progress set to 100 with the status
StopImmediatelyCompletes ==
    /\ active_task' = NoActive
    /\ log' = log
    /\ slots' = slots
    /\ tasks' = IF call'.complete
                THEN [tasks EXCEPT ![active_task[1]].status = StatusCompleted(call'.kind.at),
                                   ![active_task[1]].progress = 100]
                ELSE tasks

StopSucceeds == call'.op = "stop_current_task" /\ call'.ok

StopEffect(immediately) ==
    CASE call'.kind.kind = "EndsIn" -> StopRecords(call'.kind.duration)
      [] call'.kind.kind = "EndsAt" -> StopRecords(call'.kind.at - active_task[2])
      [] OTHER -> immediately

\* C32 as stated: after start_task_at(t, s) a successful stop with EndsIn(d) or
\* EndsAt(s + d) clears active_task, adds exactly d to t.actual_total, adds the
\* one log item (date of s, t, time of s, d) and reduces the slot of t on that
\* date by d (removed if <= 0); with Immediately nothing is recorded and only
\* active_task and, if complete, the status change.
C32_StopEffectsStatusOnly ==
    [][StopSucceeds => (active_task # NoActive /\ StopEffect(StopImmediatelyStatusOnly))]_vars

\* C32 amended: the same, where completing with Immediately changes the status
\* and sets the progress override to 100, as Task::complete does.
C32_StopEffects ==
    [][StopSucceeds => (active_task # NoActive /\ StopEffect(StopImmediatelyCompletes))]_vars

\* a stop that recorded time used up the slot of the task and logged the item
C32_Witness ==
    /\ call.op = "stop_current_task"
    /\ call.ok
    /\ call.kind.kind \in {"EndsIn", "EndsAt"}
    /\ Len(log) = 1
    /\ slots = NoSlots
    /\ tasks[log[1].task_id].actual_total = log[1].duration
    /\ active_task = NoActive

\* a completion names a task other than the active one
CompletesAnother ==
    /\ call'.op = "complete_task"
    /\ active_task # NoActive
    /\ active_task[1] # call'.task_id

\* C38: complete_task(t) clears active_task only when t is the active task;
\* when another task is active, active_task stays as it was.
C38_CompleteKeepsOtherActive ==
    [][(call'.op = "complete_task") =>
          IF CompletesAnother THEN active_task' = active_task
          ELSE active_task' = NoActive]_vars

============================================================================
